---------------------------- MODULE Spec2Model ----------------------------
(***************************************************************************)
(* A model of the SJOIN handler of ircd-hybrid (modules/core/m_sjoin.c):   *)
(* timestamp arbitration, mode merge and delta encoding, removal of the    *)
(* local privileges and mask lists, and the processing of the member list. *)
(*                                                                         *)
(* Strings the handler parses (the parameters of the message, channel      *)
(* keys) are sequences of one-character strings; names of entities the     *)
(* handler only copies around (channels, servers, nicknames, masks) are    *)
(* plain strings.                                                          *)
(***************************************************************************)
EXTENDS Integers, Sequences, FiniteSets, TLC

VARIABLES
  channels,         \* the channel hash: folded name -> struct Channel
  ignore_bogus_ts,  \* ConfigGeneral.ignore_bogus_ts
  hide_servers,     \* ConfigServerHide.hide_servers || IsHidden(source_p)
  out_local,        \* lines handed to sendto_channel_local by the running call
  out_server,       \* lines handed to sendto_server by the running call
  out_realops,      \* notices handed to sendto_realops_flags by the running call
  last,             \* the call whose output is pending (ret = "none": no call)
  delta,            \* a call of set_final_mode on its own: arguments and buffers
  peers,            \* two servers that send each other their channel
  history,          \* whowas_list, WHOWASHASH, the clients' lists and the pool
  whowas_history_length,  \* ConfigGeneral.whowas_history_length
  clock,            \* CurrentTime as the whowas functions read it
  ww_last           \* the whowas call that has just returned (op = "none": no call)

\* The variables of the server that runs ms_sjoin, and the others.
sjoin_vars == <<channels, ignore_bogus_ts, hide_servers, out_local, out_server,
                out_realops, last, delta>>

other_vars == <<peers, history, whowas_history_length, clock, ww_last>>

vars == <<channels, ignore_bogus_ts, hide_servers, out_local, out_server,
          out_realops, last, delta, peers, history, whowas_history_length,
          clock, ww_last>>

---------------------------------------------------------------------------
(* Bounds of the model and constants of the program.                       *)

\* m_sjoin.c:156,163: timestamps below this value are bogus.
BOGUS_TS_FLOOR == 800000000

\* The wall clock read by channel_make; never zero.
CurrentTime == 800000002

\* Parameters per MODE line.  The header that sets it is outside the tree;
\* the model keeps it small so that a full batch is reached.
MAXMODEPARAMS == 2

\* Longest mask list the model fills under SpecBan, and under SpecChan.
MaxBans == 3
MaxBansChan == 1

\* Largest limit of the modes set_final_mode is applied to under SpecDelta.
MaxLimit == 2

IRCD_BUFSIZE == 512
IDLEN == 12
CMEMBER_STATUS_FLAGS_LEN == 3
KEYLEN == 23

\* The shortest and the longest of the long member lists of SpecLong, in
\* tokens, and the length of the long channel name of SpecLong.
MinTokens == 37
MaxTokens == 38
LongNameLen == 470

\* The largest whowas_history_length of the model (the smallest is 1), how
\* far the clock of the history runs, and the largest age asked for.
MaxHistory == 2
MaxTicks == 1
MaxAge == 1

NULL == "NULL"
NUL == "NUL"

---------------------------------------------------------------------------
(* C strings.                                                              *)

Min(a, b) == IF a < b THEN a ELSE b

\* The code of a character, for strcmp.
Ord(c) ==
  CASE c = " " -> 32 [] c = "#" -> 35 [] c = "%" -> 37 [] c = "+" -> 43
    [] c = "-" -> 45 [] c = "0" -> 48 [] c = "1" -> 49 [] c = "2" -> 50
    [] c = "3" -> 51 [] c = "4" -> 52 [] c = "5" -> 53 [] c = "6" -> 54
    [] c = "7" -> 55 [] c = "8" -> 56 [] c = "9" -> 57 [] c = "@" -> 64
    [] c = "A" -> 65 [] c = "B" -> 66 [] c = "C" -> 67 [] c = "X" -> 88
    [] c = "a" -> 97 [] c = "b" -> 98 [] c = "k" -> 107 [] c = "l" -> 108
    [] c = "n" -> 110 [] c = "t" -> 116 [] c = "x" -> 120
    [] OTHER -> 63

IsDigit(c) == Ord(c) >= 48 /\ Ord(c) <= 57

\* strcmp(a, b): negative, zero or positive.
RECURSIVE strcmp(_, _)
strcmp(a, b) ==
  IF a = <<>> /\ b = <<>> THEN 0
  ELSE IF a = <<>> THEN 0 - 1
  ELSE IF b = <<>> THEN 1
  ELSE IF Ord(a[1]) # Ord(b[1]) THEN Ord(a[1]) - Ord(b[1])
  ELSE strcmp(Tail(a), Tail(b))

\* strlcpy(dst, src, size): at most size - 1 characters are copied.
strlcpy(src, size) == SubSeq(src, 1, Min(Len(src), size - 1))

\* The leading decimal digits of a string, as a number (strtoumax and atoi
\* on the unsigned inputs the model sends; anything else parses as 0).
RECURSIVE DigitsValue(_, _)
DigitsValue(s, acc) ==
  IF s = <<>> \/ ~IsDigit(s[1]) THEN acc
  ELSE DigitsValue(Tail(s), acc * 10 + (Ord(s[1]) - 48))

strtoumax(s) == DigitsValue(s, 0)
atoi(s) == DigitsValue(s, 0)

\* sprintf("%u") and sprintf("%ju").
RECURSIVE UIntToStr(_)
UIntToStr(n) ==
  LET d == <<"0", "1", "2", "3", "4", "5", "6", "7", "8", "9">>
  IN  IF n < 10 THEN <<d[n + 1]>> ELSE UIntToStr(n \div 10) \o <<d[(n % 10) + 1]>>

---------------------------------------------------------------------------
(* Servers and users known to the User Directory.                          *)

me == [name |-> "me.irc", id |-> <<"0">>]

\* The server the SJOIN comes from, and the link it is reached through.
source_p == [name |-> "hub.irc", id |-> <<"1">>, from |-> "link1"]

Users == {"alice", "bob", "carol", "dave"}

\* struct Client of a user: the opaque id, the nickname as typed, and the
\* link the user is reached through.
Client(u) ==
  CASE u = "alice" -> [name |-> "alice", id |-> <<"1", "A">>, nick |-> <<"a">>,
                       from |-> "link1", away |-> FALSE]
    [] u = "bob"   -> [name |-> "bob", id |-> <<"1", "B">>, nick |-> <<"b">>,
                       from |-> "link1", away |-> TRUE]
    [] u = "carol" -> [name |-> "carol", id |-> <<"2", "C">>, nick |-> <<"c">>,
                       from |-> "link2", away |-> FALSE]
    [] u = "dave"  -> [name |-> "dave",
                       id |-> <<"1", "A", "A", "A", "A", "A", "A", "A", "D">>,
                       nick |-> <<"d">>, from |-> "link1", away |-> FALSE]

\* find_person(source_p, s): ids are looked up when s starts with a digit,
\* nicknames otherwise.
find_person(s) ==
  IF s = <<>> THEN NULL
  ELSE IF IsDigit(s[1])
       THEN IF \E u \in Users : Client(u).id = s
            THEN CHOOSE u \in Users : Client(u).id = s ELSE NULL
       ELSE IF \E u \in Users : Client(u).nick = s
            THEN CHOOSE u \in Users : Client(u).nick = s ELSE NULL

---------------------------------------------------------------------------
(* Channel modes.                                                          *)

\* cmode_tab: the table of mode letters; an entry whose mode is empty is a
\* letter that is no simple flag (a list mode).
cmode_tab ==
  << [letter |-> "b", mode |-> {}],
     [letter |-> "n", mode |-> {"n"}],
     [letter |-> "t", mode |-> {"t"}] >>

\* cmode_map[c]: the entry of a letter; its letter is NULL when there is none.
cmode_map(c) ==
  IF \E i \in 1..Len(cmode_tab) : cmode_tab[i].letter = c
  THEN cmode_tab[CHOOSE i \in 1..Len(cmode_tab) : cmode_tab[i].letter = c]
  ELSE [letter |-> NULL, mode |-> {}]

\* struct Mode, zeroed.
NoMode == [mode |-> {}, limit |-> 0, key |-> <<>>]

\* The letters of cmode_tab, in table order, that satisfy P.
RECURSIVE TabLetters(_, _, _)
TabLetters(i, inSet, notInSet) ==
  IF i > Len(cmode_tab) THEN <<>>
  ELSE (IF cmode_tab[i].mode # {} /\ cmode_tab[i].mode \cap inSet # {}
           /\ cmode_tab[i].mode \cap notInSet = {}
        THEN <<cmode_tab[i].letter>> ELSE <<>>)
       \o TabLetters(i + 1, inSet, notInSet)

\* Lines 550-564 of set_final_mode: the letters written after the '-', and
\* their parameters.
MinusLetters(mode, oldmode) ==
  TabLetters(1, oldmode.mode, mode.mode)
  \o (IF oldmode.limit # 0 /\ mode.limit = 0 THEN <<"l">> ELSE <<>>)
  \o (IF oldmode.key # <<>> /\ mode.key = <<>> THEN <<"k">> ELSE <<>>)

MinusParams(mode, oldmode) ==
  IF oldmode.key # <<>> /\ mode.key = <<>> THEN <<oldmode.key>> ELSE <<>>

\* Lines 571-587: the letters written after the '+', and their parameters.
PlusLetters(mode, oldmode) ==
  TabLetters(1, mode.mode, oldmode.mode)
  \o (IF mode.limit # 0 /\ oldmode.limit # mode.limit THEN <<"l">> ELSE <<>>)
  \o (IF mode.key # <<>> /\ strcmp(oldmode.key, mode.key) # 0
      THEN <<"k">> ELSE <<>>)

PlusParams(mode, oldmode) ==
  (IF mode.limit # 0 /\ oldmode.limit # mode.limit
   THEN <<UIntToStr(mode.limit)>> ELSE <<>>)
  \o (IF mode.key # <<>> /\ strcmp(oldmode.key, mode.key) # 0
      THEN <<mode.key>> ELSE <<>>)

\* Lines 566-569: a '-' that nothing follows becomes the '+', else the '+'
\* is appended.
PutPlus(buf) ==
  IF buf[Len(buf)] = "-" THEN SubSeq(buf, 1, Len(buf) - 1) \o <<"+">>
  ELSE buf \o <<"+">>

\* Lines 589-592: a '+' that nothing follows is dropped.
DropPlus(buf) ==
  IF buf[Len(buf)] = "+" THEN SubSeq(buf, 1, Len(buf) - 1) ELSE buf

\* set_final_mode with the parameters of the added modes written in front of
\* those of the removed ones.
set_final_mode_PlusParamsFirst(mode, oldmode) ==
  [mbuf |-> DropPlus(PutPlus(<<"-">> \o MinusLetters(mode, oldmode))
                     \o PlusLetters(mode, oldmode)),
   pbuf |-> PlusParams(mode, oldmode) \o MinusParams(mode, oldmode)]

\* set_final_mode(mode, oldmode, mbuf, pbuf): the letters and the parameters
\* of the change from oldmode to mode.  pbuf holds one entry per "%s " or
\* "%u " written.
set_final_mode(mode, oldmode) ==
  [mbuf |-> DropPlus(PutPlus(<<"-">> \o MinusLetters(mode, oldmode))
                     \o PlusLetters(mode, oldmode)),
   pbuf |-> MinusParams(mode, oldmode) \o PlusParams(mode, oldmode)]

\* channel_modes(chptr, source_p, mbuf, pbuf) for a server: the full mode of
\* the channel; both buffers are written afresh.
channel_modes(m) ==
  [mbuf |-> <<"+">> \o TabLetters(1, m.mode, {})
            \o (IF m.limit # 0 THEN <<"l">> ELSE <<>>)
            \o (IF m.key # <<>> THEN <<"k">> ELSE <<>>),
   pbuf |-> (IF m.limit # 0 THEN <<UIntToStr(m.limit)>> ELSE <<>>)
            \o (IF m.key # <<>> THEN <<m.key>> ELSE <<>>)]

---------------------------------------------------------------------------
(* Lines handed to the Relay/Delivery collaborator.                         *)

\* strlen of a name the handler only copies.
NameLen(s) ==
  CASE s = "me.irc" -> 6 [] s = "hub.irc" -> 7 [] s = "#a" -> 2 [] s = "#A" -> 2
    [] s = "alice" -> 5 [] s = "bob" -> 3 [] s = "carol" -> 5
    [] s = "dave" -> 4 [] s = "#long" -> LongNameLen
    [] OTHER -> 1

\* ":%s MODE %s %s%s" and ":%s MODE %s %s %s": a MODE line to the local
\* members; para is the list of its parameters.
ModeLine(origin, chname, modebuf, para) ==
  [cmd |-> "MODE", origin |-> origin, chan |-> chname, modebuf |-> modebuf,
   para |-> para]

\* ":%s!%s@%s JOIN ...", ":%s!%s@%s AWAY ...".
UserLine(cmd, who, chname) ==
  [cmd |-> cmd, origin |-> who, chan |-> chname, modebuf |-> <<>>, para |-> <<>>]

\* ":%s NOTICE %s :*** Notice -- TS for %s changed from %ju to %ju".
TSNotice(chname, from, to) ==
  [cmd |-> "NOTICE", origin |-> me.name, chan |-> chname, modebuf |-> <<>>,
   para |-> <<from, to>>]

\* ":%s TOPIC %s :".
TopicLine(origin, chname) ==
  [cmd |-> "TOPIC", origin |-> origin, chan |-> chname, modebuf |-> <<>>,
   para |-> <<>>]

\* The name local members see as the origin of a change: the server's own
\* name when servers are hidden.
Servername(hide) == IF hide THEN me.name ELSE source_p.name

---------------------------------------------------------------------------
(* Removal of the local privileges and mask lists (the local side lost).    *)

\* remove_a_mode: the loop over chptr->members from member i on.  st holds
\* the members, the pending names (lpara) and the lines sent so far.
RECURSIVE remove_a_mode_loop(_, _, _, _, _, _)
remove_a_mode_loop(st, i, mask, flag, origin, chname) ==
  IF i > Len(st.members)
  THEN IF Len(st.lpara) # 0
       THEN [st EXCEPT !.lines = @ \o
               <<ModeLine(origin, chname,
                          <<"-">> \o [k \in 1..Len(st.lpara) |-> flag],
                          st.lpara)>>,
             !.lpara = <<>>]
       ELSE st
  ELSE IF mask \notin st.members[i].flags
       THEN remove_a_mode_loop(st, i + 1, mask, flag, origin, chname)
       ELSE LET cleared == [st.members EXCEPT ![i].flags = @ \ {mask}]
                lpara   == Append(st.lpara, st.members[i].client_p)
            IN  IF Len(lpara) >= MAXMODEPARAMS
                THEN remove_a_mode_loop(
                       [members |-> cleared, lpara |-> <<>>,
                        lines |-> st.lines \o
                          <<ModeLine(origin, chname,
                                     <<"-">> \o [k \in 1..Len(lpara) |-> flag],
                                     lpara)>>],
                       i + 1, mask, flag, origin, chname)
                ELSE remove_a_mode_loop(
                       [members |-> cleared, lpara |-> lpara, lines |-> st.lines],
                       i + 1, mask, flag, origin, chname)

\* remove_a_mode without the test of line 670: the line after the loop is
\* sent also when no name is pending.
remove_a_mode_SendsEmpty(members, mask, flag, hide, chname) ==
  LET r == remove_a_mode_loop([members |-> members, lpara |-> <<>>, lines |-> <<>>],
                              1, mask, flag, Servername(hide), chname)
      n == Cardinality({ i \in DOMAIN members : mask \in members[i].flags })
  IN  [members |-> r.members,
       lines |-> r.lines \o (IF n % MAXMODEPARAMS = 0
                             THEN <<ModeLine(Servername(hide), chname, <<"-">>, <<>>)>>
                             ELSE <<>>)]

\* remove_a_mode(chptr, source_p, mask, flag): the members with the flag
\* cleared, and the MODE lines sent.
remove_a_mode(members, mask, flag, hide, chname) ==
  LET r == remove_a_mode_loop([members |-> members, lpara |-> <<>>, lines |-> <<>>],
                              1, mask, flag, Servername(hide), chname)
  IN  [members |-> r.members, lines |-> r.lines]

\* remove_our_modes without the pass for the voices.
remove_our_modes_KeepVoice(members, hide, chname) ==
  LET o == remove_a_mode(members, "CHFL_CHANOP", "o", hide, chname)
      h == remove_a_mode(o.members, "CHFL_HALFOP", "h", hide, chname)
  IN  [members |-> h.members, lines |-> o.lines \o h.lines]

\* remove_our_modes: o, then h, then v.
remove_our_modes(members, hide, chname) ==
  LET o == remove_a_mode(members, "CHFL_CHANOP", "o", hide, chname)
      h == remove_a_mode(o.members, "CHFL_HALFOP", "h", hide, chname)
      v == remove_a_mode(h.members, "CHFL_VOICE", "v", hide, chname)
  IN  [members |-> v.members, lines |-> o.lines \o h.lines \o v.lines]

\* A mask line of remove_ban_list: "%s %s" of modebuf and parabuf, modebuf
\* being ":<source> MODE <channel> -" followed by one letter per mask.
BanLine(chname, letters, masks) ==
  [cmd |-> "MODE", origin |-> source_p.name, chan |-> chname,
   modebuf |-> <<"-">> \o letters, para |-> masks]

\* remove_ban_list: the loop over the list.  st holds the entries not yet
\* removed, the entries of the line being built, cur_len and the lines sent.
RECURSIVE remove_ban_loop(_, _, _, _)
remove_ban_loop(st, c, chname, mlen) ==
  IF st.list = <<>>
  THEN [st EXCEPT !.lines = @ \o
          <<BanLine(chname, [k \in 1..Len(st.pending) |-> c], st.pending)>>,
        !.pending = <<>>]
  ELSE LET ban   == Head(st.list)
           plen  == ban.len + 4
           flush == Len(st.pending) >= MAXMODEPARAMS
                    \/ (st.cur_len + 1 + (plen - 1)) > IRCD_BUFSIZE - 2
           s1    == IF flush
                    THEN [st EXCEPT !.lines = @ \o
                            <<BanLine(chname, [k \in 1..Len(st.pending) |-> c],
                                      st.pending)>>,
                          !.cur_len = mlen, !.pending = <<>>]
                    ELSE st
       IN  remove_ban_loop(
             [list |-> Tail(s1.list), pending |-> Append(s1.pending, ban),
              cur_len |-> s1.cur_len + plen, lines |-> s1.lines],
             c, chname, mlen)

\* remove_ban_list without the line sent after the loop.
remove_ban_list_NoLastLine(list, c, chname) ==
  IF Len(list) = 0 THEN [list |-> list, lines |-> <<>>]
  ELSE LET mlen == 1 + NameLen(source_p.name) + 6 + NameLen(chname) + 2
           r == remove_ban_loop([list |-> list, pending |-> <<>>,
                                 cur_len |-> mlen, lines |-> <<>>],
                                c, chname, mlen)
       IN  [list |-> r.list, lines |-> SubSeq(r.lines, 1, Len(r.lines) - 1)]

\* remove_ban_list(chptr, source_p, list, c): the list afterwards and the
\* lines sent; nothing is done for an empty list.
remove_ban_list(list, c, chname) ==
  IF Len(list) = 0 THEN [list |-> list, lines |-> <<>>]
  ELSE LET mlen == 1 + NameLen(source_p.name) + 6 + NameLen(chname) + 2
           r == remove_ban_loop([list |-> list, pending |-> <<>>,
                                 cur_len |-> mlen, lines |-> <<>>],
                                c, chname, mlen)
       IN  [list |-> r.list, lines |-> r.lines]

---------------------------------------------------------------------------
(* Character buffers written in place (modebuf of ms_sjoin).                *)

\* buf with character c stored at position pos (1 is the first); positions
\* never written hold NUL.
BufPut(buf, pos, c) ==
  IF pos <= Len(buf) THEN [buf EXCEPT ![pos] = c]
  ELSE buf \o [k \in 1..(pos - Len(buf) - 1) |-> NUL] \o <<c>>

\* buf with the string s and its terminating NUL stored from position pos.
RECURSIVE BufPuts(_, _, _)
BufPuts(buf, pos, s) ==
  IF s = <<>> THEN BufPut(buf, pos, NUL)
  ELSE BufPuts(BufPut(buf, pos, Head(s)), pos + 1, Tail(s))

\* The C string that starts at the first position of buf.
RECURSIVE CStr(_)
CStr(buf) ==
  IF buf = <<>> \/ Head(buf) = NUL THEN <<>>
  ELSE <<Head(buf)>> \o CStr(Tail(buf))

---------------------------------------------------------------------------
(* The Channel Store.                                                      *)

\* The names channel_check_name accepts.
ValidChannelNames == {"#a", "#A", "#long"}
channel_check_name(name) == name \in ValidChannelNames

\* Channel names are hashed and compared without regard to case.
Fold(name) == IF name = "#A" THEN "#a" ELSE name

\* hash_find_channel(name): whether the channel exists.
hash_find_channel(chs, name) == Fold(name) \in DOMAIN chs

\* channel_make(name): a fresh channel, its creation time the wall clock.
channel_make(name) ==
  [name |-> name, creationtime |-> CurrentTime, mode |-> NoMode,
   members |-> <<>>, banlist |-> <<>>, exceptlist |-> <<>>, invexlist |-> <<>>,
   topic |-> ""]

\* IsMember(client, chptr).
IsMember(members, u) == \E i \in 1..Len(members) : members[i].client_p = u

\* The flags of a member.
FlagsAt(members, u) == members[CHOOSE i \in 1..Len(members) : members[i].client_p = u].flags

\* add_user_to_channel(chptr, client, flags, ...): the membership is linked
\* at the head of chptr->members.
add_user_to_channel(members, u, fl) == <<[client_p |-> u, flags |-> fl]>> \o members

\* A struct Ban: the k-th mask.
Ban(k) == [name |-> k, user |-> "*", host |-> "*", len |-> 4]

---------------------------------------------------------------------------
(* ms_sjoin: the parameters.                                               *)

\* parv[i] of a message; parv[0] is the command.
Parv(m, i) == IF i < m.parc THEN m.parv[i + 1] ELSE <<NULL>>

\* The result r of the rest of the loop, parv[idx] having been read before.
ReadBefore(idx, r) == [r EXCEPT !.reads = <<idx>> \o @]

\* The loop of lines 114-143 without the tests of parc (lines 122-123 and
\* 130-131): every k and l takes the next parameter, there or not.
RECURSIVE ParseModes_NoParcCheck(_, _, _, _)
ParseModes_NoParcCheck(m, i, mode, args) ==
  IF i > Len(Parv(m, 3))
  THEN [ok |-> TRUE, mode |-> mode, args |-> args, reads |-> <<>>]
  ELSE IF Parv(m, 3)[i] = "k"
  THEN ReadBefore(4 + args,
         ParseModes_NoParcCheck(m, i + 1,
           [mode EXCEPT !.key = strlcpy(Parv(m, 4 + args), KEYLEN + 1)],
           args + 1))
  ELSE IF Parv(m, 3)[i] = "l"
  THEN ReadBefore(4 + args,
         ParseModes_NoParcCheck(m, i + 1,
           [mode EXCEPT !.limit = atoi(Parv(m, 4 + args))], args + 1))
  ELSE IF cmode_map(Parv(m, 3)[i]).letter # NULL
  THEN ParseModes_NoParcCheck(m, i + 1,
         [mode EXCEPT !.mode = @ \cup cmode_map(Parv(m, 3)[i]).mode], args)
  ELSE ParseModes_NoParcCheck(m, i + 1, mode, args)

\* Lines 114-143: the loop over the mode letters of parv[3] from letter i
\* on.  A k or an l reads parv[4 + args] first, then counts it, then tests
\* parc; ok is FALSE when the handler returns for want of an argument, and
\* reads holds the indices of parv the loop has read, in order.
RECURSIVE ParseModes(_, _, _, _)
ParseModes(m, i, mode, args) ==
  IF i > Len(Parv(m, 3))
  THEN [ok |-> TRUE, mode |-> mode, args |-> args, reads |-> <<>>]
  ELSE IF Parv(m, 3)[i] = "k"
  THEN IF m.parc < 5 + (args + 1)
       THEN [ok |-> FALSE,
             mode |-> [mode EXCEPT !.key = strlcpy(Parv(m, 4 + args), KEYLEN + 1)],
             args |-> args + 1, reads |-> <<4 + args>>]
       ELSE ReadBefore(4 + args,
              ParseModes(m, i + 1,
                [mode EXCEPT !.key = strlcpy(Parv(m, 4 + args), KEYLEN + 1)],
                args + 1))
  ELSE IF Parv(m, 3)[i] = "l"
  THEN IF m.parc < 5 + (args + 1)
       THEN [ok |-> FALSE,
             mode |-> [mode EXCEPT !.limit = atoi(Parv(m, 4 + args))],
             args |-> args + 1, reads |-> <<4 + args>>]
       ELSE ReadBefore(4 + args,
              ParseModes(m, i + 1,
                [mode EXCEPT !.limit = atoi(Parv(m, 4 + args))], args + 1))
  ELSE IF cmode_map(Parv(m, 3)[i]).letter # NULL
  THEN ParseModes(m, i + 1,
         [mode EXCEPT !.mode = @ \cup cmode_map(Parv(m, 3)[i]).mode], args)
  ELSE ParseModes(m, i + 1, mode, args)

---------------------------------------------------------------------------
(* ms_sjoin: timestamp arbitration and the merge of the modes.             *)

\* BogusTS with the floor for every timestamp below it, whatever the
\* channel's own.
BogusTS_AlwaysFloor(ignore, newts, oldts) ==
  IF ignore /\ newts < BOGUS_TS_FLOOR THEN BOGUS_TS_FLOOR ELSE newts

\* Lines 154-165: the timestamp the arbitration uses.
BogusTS(ignore, newts, oldts) ==
  IF ignore /\ newts < BOGUS_TS_FLOOR
  THEN (IF oldts = 0 THEN 0 ELSE BOGUS_TS_FLOOR)
  ELSE newts

\* Arbitrate with the fresh channel keeping the creation time it was made
\* with.
Arbitrate_NewKeepsOwnTS(isnew, newts, oldts) ==
  IF isnew
  THEN [creationtime |-> oldts, tstosend |-> newts,
        keep_our_modes |-> TRUE, keep_new_modes |-> TRUE]
  ELSE IF newts = 0 \/ oldts = 0
  THEN [creationtime |-> 0, tstosend |-> 0,
        keep_our_modes |-> TRUE, keep_new_modes |-> TRUE]
  ELSE IF newts = oldts
  THEN [creationtime |-> oldts, tstosend |-> oldts,
        keep_our_modes |-> TRUE, keep_new_modes |-> TRUE]
  ELSE IF newts < oldts
  THEN [creationtime |-> newts, tstosend |-> newts,
        keep_our_modes |-> FALSE, keep_new_modes |-> TRUE]
  ELSE [creationtime |-> oldts, tstosend |-> oldts,
        keep_our_modes |-> TRUE, keep_new_modes |-> FALSE]

\* Arbitrate with the newer message treated like the older one.
Arbitrate_NewerReplaces(isnew, newts, oldts) ==
  IF isnew
  THEN [creationtime |-> newts, tstosend |-> newts,
        keep_our_modes |-> TRUE, keep_new_modes |-> TRUE]
  ELSE IF newts = 0 \/ oldts = 0
  THEN [creationtime |-> 0, tstosend |-> 0,
        keep_our_modes |-> TRUE, keep_new_modes |-> TRUE]
  ELSE IF newts = oldts
  THEN [creationtime |-> oldts, tstosend |-> oldts,
        keep_our_modes |-> TRUE, keep_new_modes |-> TRUE]
  ELSE [creationtime |-> newts, tstosend |-> newts,
        keep_our_modes |-> FALSE, keep_new_modes |-> TRUE]

\* Arbitrate with the zero branch relaying 0 but keeping the channel's
\* creation time.
Arbitrate_ZeroKeepsTS(isnew, newts, oldts) ==
  IF isnew
  THEN [creationtime |-> newts, tstosend |-> newts,
        keep_our_modes |-> TRUE, keep_new_modes |-> TRUE]
  ELSE IF newts = 0 \/ oldts = 0
  THEN [creationtime |-> oldts, tstosend |-> 0,
        keep_our_modes |-> TRUE, keep_new_modes |-> TRUE]
  ELSE IF newts = oldts
  THEN [creationtime |-> oldts, tstosend |-> oldts,
        keep_our_modes |-> TRUE, keep_new_modes |-> TRUE]
  ELSE IF newts < oldts
  THEN [creationtime |-> newts, tstosend |-> newts,
        keep_our_modes |-> FALSE, keep_new_modes |-> TRUE]
  ELSE [creationtime |-> oldts, tstosend |-> oldts,
        keep_our_modes |-> TRUE, keep_new_modes |-> FALSE]

\* Arbitrate with a channel whose timestamp is 0 taking the timestamp of the
\* message.
Arbitrate_ZeroTakesIncoming(isnew, newts, oldts) ==
  IF isnew
  THEN [creationtime |-> newts, tstosend |-> newts,
        keep_our_modes |-> TRUE, keep_new_modes |-> TRUE]
  ELSE IF newts = 0 \/ oldts = 0
  THEN [creationtime |-> IF oldts = 0 THEN newts ELSE 0, tstosend |-> 0,
        keep_our_modes |-> TRUE, keep_new_modes |-> TRUE]
  ELSE IF newts = oldts
  THEN [creationtime |-> oldts, tstosend |-> oldts,
        keep_our_modes |-> TRUE, keep_new_modes |-> TRUE]
  ELSE IF newts < oldts
  THEN [creationtime |-> newts, tstosend |-> newts,
        keep_our_modes |-> FALSE, keep_new_modes |-> TRUE]
  ELSE [creationtime |-> oldts, tstosend |-> oldts,
        keep_our_modes |-> TRUE, keep_new_modes |-> FALSE]

\* Arbitrate with the local side losing against an equal timestamp.
Arbitrate_EqualLoses(isnew, newts, oldts) ==
  IF isnew
  THEN [creationtime |-> newts, tstosend |-> newts,
        keep_our_modes |-> TRUE, keep_new_modes |-> TRUE]
  ELSE IF newts = 0 \/ oldts = 0
  THEN [creationtime |-> 0, tstosend |-> 0,
        keep_our_modes |-> TRUE, keep_new_modes |-> TRUE]
  ELSE IF newts <= oldts
  THEN [creationtime |-> newts, tstosend |-> newts,
        keep_our_modes |-> FALSE, keep_new_modes |-> TRUE]
  ELSE [creationtime |-> oldts, tstosend |-> oldts,
        keep_our_modes |-> TRUE, keep_new_modes |-> FALSE]

\* Lines 179-194: the channel's timestamp afterwards, the timestamp relayed
\* and which side keeps its modes.
Arbitrate(isnew, newts, oldts) ==
  IF isnew
  THEN [creationtime |-> newts, tstosend |-> newts,
        keep_our_modes |-> TRUE, keep_new_modes |-> TRUE]
  ELSE IF newts = 0 \/ oldts = 0
  THEN [creationtime |-> 0, tstosend |-> 0,
        keep_our_modes |-> TRUE, keep_new_modes |-> TRUE]
  ELSE IF newts = oldts
  THEN [creationtime |-> oldts, tstosend |-> oldts,
        keep_our_modes |-> TRUE, keep_new_modes |-> TRUE]
  ELSE IF newts < oldts
  THEN [creationtime |-> newts, tstosend |-> newts,
        keep_our_modes |-> FALSE, keep_new_modes |-> TRUE]
  ELSE [creationtime |-> oldts, tstosend |-> oldts,
        keep_our_modes |-> TRUE, keep_new_modes |-> FALSE]

\* MergeMode with the limit of the message always kept.
MergeMode_IncomingLimit(mode, oldmode, keep_our_modes, keep_new_modes) ==
  IF ~keep_new_modes THEN oldmode
  ELSE IF keep_our_modes
  THEN [mode  |-> mode.mode \cup oldmode.mode,
        limit |-> mode.limit,
        key   |-> IF strcmp(mode.key, oldmode.key) < 0
                  THEN strlcpy(oldmode.key, KEYLEN + 1) ELSE mode.key]
  ELSE mode

\* MergeMode with the comparison of the keys turned round.
MergeMode_SmallerKey(mode, oldmode, keep_our_modes, keep_new_modes) ==
  IF ~keep_new_modes THEN oldmode
  ELSE IF keep_our_modes
  THEN [mode  |-> mode.mode \cup oldmode.mode,
        limit |-> IF oldmode.limit > mode.limit THEN oldmode.limit ELSE mode.limit,
        key   |-> IF strcmp(mode.key, oldmode.key) > 0
                  THEN strlcpy(oldmode.key, KEYLEN + 1) ELSE mode.key]
  ELSE mode

\* MergeMode with the local modes merged in also when the local side lost.
MergeMode_AlwaysMerge(mode, oldmode, keep_our_modes, keep_new_modes) ==
  IF ~keep_new_modes THEN oldmode
  ELSE [mode  |-> mode.mode \cup oldmode.mode,
        limit |-> IF oldmode.limit > mode.limit THEN oldmode.limit ELSE mode.limit,
        key   |-> IF strcmp(mode.key, oldmode.key) < 0
                  THEN strlcpy(oldmode.key, KEYLEN + 1) ELSE mode.key]

\* MergeMode with the channel's own key kept whenever it has one.
MergeMode_KeepsOwnKey(mode, oldmode, keep_our_modes, keep_new_modes) ==
  IF ~keep_new_modes THEN oldmode
  ELSE IF keep_our_modes
  THEN [mode  |-> mode.mode \cup oldmode.mode,
        limit |-> IF oldmode.limit > mode.limit THEN oldmode.limit ELSE mode.limit,
        key   |-> IF oldmode.key # <<>>
                  THEN strlcpy(oldmode.key, KEYLEN + 1) ELSE mode.key]
  ELSE mode

\* Lines 196-206: the mode the channel gets.
MergeMode(mode, oldmode, keep_our_modes, keep_new_modes) ==
  IF ~keep_new_modes THEN oldmode
  ELSE IF keep_our_modes
  THEN [mode  |-> mode.mode \cup oldmode.mode,
        limit |-> IF oldmode.limit > mode.limit THEN oldmode.limit ELSE mode.limit,
        key   |-> IF strcmp(mode.key, oldmode.key) < 0
                  THEN strlcpy(oldmode.key, KEYLEN + 1) ELSE mode.key]
  ELSE mode

---------------------------------------------------------------------------
(* ms_sjoin: the member list.                                              *)

\* s without its leading spaces.
RECURSIVE SkipSpaces(_)
SkipSpaces(s) == IF s # <<>> /\ Head(s) = " " THEN SkipSpaces(Tail(s)) ELSE s

\* The index of the first space of s (strchr(s, ' ')), 0 when it has none.
RECURSIVE FirstSpace(_, _)
FirstSpace(s, i) ==
  IF i > Len(s) THEN 0 ELSE IF s[i] = " " THEN i ELSE FirstSpace(s, i + 1)

\* The cut of s at index i: the token before it, and the rest p with its
\* leading spaces skipped (p.null: there is no space).
CutAt(s, i) ==
  IF i = 0 THEN [tok |-> s, p |-> [null |-> TRUE, s |-> <<>>]]
  ELSE [tok |-> SubSeq(s, 1, i - 1),
        p |-> [null |-> FALSE, s |-> SkipSpaces(SubSeq(s, i + 1, Len(s)))]]

\* Lines 278-289 and 475-487: the next token of the list.
Split(s) == CutAt(s, FirstSpace(s, 1))

\* Lines 296-316: the run of sigils in front of a token.
RECURSIVE Sigils(_, _)
Sigils(s, fl) ==
  IF s # <<>> /\ Head(s) = "@" THEN Sigils(Tail(s), fl \cup {"CHFL_CHANOP"})
  ELSE IF s # <<>> /\ Head(s) = "%" THEN Sigils(Tail(s), fl \cup {"CHFL_HALFOP"})
  ELSE IF s # <<>> /\ Head(s) = "+" THEN Sigils(Tail(s), fl \cup {"CHFL_VOICE"})
  ELSE [fl |-> fl, s |-> s]

\* TokenFlags without the else of line 350: the sigils count whoever won.
TokenFlags_Always(keep_new_modes, fl) == fl

\* Lines 330-351: the flags a token gives its user.
TokenFlags(keep_new_modes, fl) == IF keep_new_modes THEN fl ELSE {}

\* Lines 332-348: uid_prefix.
UidPrefix(fl) ==
  (IF "CHFL_CHANOP" \in fl THEN <<"@">> ELSE <<>>)
  \o (IF "CHFL_HALFOP" \in fl THEN <<"%">> ELSE <<>>)
  \o (IF "CHFL_VOICE" \in fl THEN <<"+">> ELSE <<>>)

\* The length of parabuf: every parameter is followed by a space.
RECURSIVE ParaLen(_)
ParaLen(para) == IF para = <<>> THEN 0 ELSE Len(Head(para)) + 1 + ParaLen(Tail(para))

\* Lines 258-260 and 359-361: ":%s SJOIN %ju %s %s %s:" and its length.
SjoinHeader(tstosend, chname, modebuf, parabuf) ==
  [origin |-> source_p.id, ts |-> tstosend, chan |-> chname,
   modebuf |-> modebuf, parabuf |-> parabuf,
   len |-> 1 + Len(source_p.id) + 7 + Len(UIntToStr(tstosend)) + 1
           + NameLen(chname) + 1 + Len(modebuf) + 1 + ParaLen(parabuf) + 1]

\* uid_buf as handed to sendto_server: the header, whether its ':' is still
\* there, the tokens, and whether the last token's space is still there.
SjoinLine(hdr, toks, colon, trail) ==
  [hdr |-> hdr, toks |-> toks, colon |-> colon, trail |-> trail]

\* The flush that sends uid_buf and keeps the tokens it has sent.
tok_flush_KeepsTokens(c, len_uid) ==
  IF (c.len + len_uid) > (IRCD_BUFSIZE - 2)
  THEN [c EXCEPT
          !.server = @ \o <<SjoinLine(c.hdr, c.toks, TRUE, TRUE)>>,
          !.len = c.hdr.len]
  ELSE c

\* Lines 355-363: uid_buf is sent and started again when the token would
\* not fit.
tok_flush(c, len_uid) ==
  IF (c.len + len_uid) > (IRCD_BUFSIZE - 2)
  THEN [c EXCEPT
          !.server = @ \o <<SjoinLine(c.hdr, c.toks, TRUE, TRUE)>>,
          !.hdr = SjoinHeader(c.arb.tstosend, c.chptr.name, CStr(c.modebuf),
                              c.parabuf),
          !.toks = <<>>,
          !.len = SjoinHeader(c.arb.tstosend, c.chptr.name, CStr(c.modebuf),
                              c.parabuf).len]
  ELSE c

\* Line 365: the token is written to uid_buf.
tok_append(c, prefix, id) ==
  [c EXCEPT !.toks = Append(@, [prefix |-> prefix, id |-> id]),
            !.len = @ + Len(prefix) + Len(id) + 1]

\* The join without the test of line 367.
tok_join_Always(c, target_p, fl) ==
  [c EXCEPT
     !.chptr.members = add_user_to_channel(@, target_p, fl),
     !.joined = Append(@, target_p),
     !.local = @ \o <<UserLine("JOIN_EXTENDED", target_p, c.chptr.name),
                      UserLine("JOIN", target_p, c.chptr.name)>>
                 \o (IF Client(target_p).away
                     THEN <<UserLine("AWAY", target_p, c.chptr.name)>>
                     ELSE <<>>)]

\* The join that gives the new member no privilege.
tok_join_NoFlags(c, target_p, fl) ==
  IF ~IsMember(c.chptr.members, target_p)
  THEN [c EXCEPT
          !.chptr.members = add_user_to_channel(@, target_p, {}),
          !.joined = Append(@, target_p),
          !.local = @ \o <<UserLine("JOIN_EXTENDED", target_p, c.chptr.name),
                           UserLine("JOIN", target_p, c.chptr.name)>>
                      \o (IF Client(target_p).away
                          THEN <<UserLine("AWAY", target_p, c.chptr.name)>>
                          ELSE <<>>)]
  ELSE c

\* Lines 367-383: a user who is no member yet joins.
tok_join(c, target_p, fl) ==
  IF ~IsMember(c.chptr.members, target_p)
  THEN [c EXCEPT
          !.chptr.members = add_user_to_channel(@, target_p, fl),
          !.joined = Append(@, target_p),
          !.local = @ \o <<UserLine("JOIN_EXTENDED", target_p, c.chptr.name),
                           UserLine("JOIN", target_p, c.chptr.name)>>
                      \o (IF Client(target_p).away
                          THEN <<UserLine("AWAY", target_p, c.chptr.name)>>
                          ELSE <<>>)]
  ELSE c

\* The batch that is never sent from inside the loop.
unit_flush_Never(c) == c

\* Lines 401-416 (and 427-443, 454-470): the batch is sent, and modebuf and
\* the parameters start again.
unit_flush(c) ==
  IF Len(c.para) >= MAXMODEPARAMS
  THEN [c EXCEPT
          !.local = @ \o <<ModeLine(Servername(c.hide), c.chptr.name,
                                    CStr(BufPut(c.modebuf, c.mpos, NUL)),
                                    c.para)>>,
          !.modebuf = BufPut(BufPut(c.modebuf, c.mpos, NUL), 1, "+"),
          !.mpos = 2,
          !.para = <<>>]
  ELSE c

\* Lines 385-418 (and 420-445, 447-472): one privilege letter and its
\* parameter are queued when the flag is set.
QueueUnit(c, fl, flag, letter, u) ==
  IF flag \in fl
  THEN unit_flush([c EXCEPT !.modebuf = BufPut(@, c.mpos, letter),
                            !.mpos = @ + 1,
                            !.para = Append(@, u)])
  ELSE c

\* Lines 327-472: a token that names a user behind the link of the message.
tok_user(c, target_p, fl) ==
  QueueUnit(
    QueueUnit(
      QueueUnit(
        tok_join(
          tok_append(
            tok_flush(c, Len(Client(target_p).id) + Len(UidPrefix(fl))),
            UidPrefix(fl), Client(target_p).id),
          target_p, fl),
        fl, "CHFL_CHANOP", "o", target_p),
      fl, "CHFL_HALFOP", "h", target_p),
    fl, "CHFL_VOICE", "v", target_p)

\* The test of line 324 without its second half: a user behind another link
\* is taken like any other.
tok_target_AnyLink(c, fl, target_p) ==
  IF target_p = NULL THEN c
  ELSE tok_user(c, target_p, TokenFlags(c.arb.keep_new_modes, fl))

\* Lines 318-325: a token that names nobody, or a user behind another link,
\* is skipped.
tok_target(c, fl, target_p) ==
  IF target_p = NULL THEN c
  ELSE IF Client(target_p).from # source_p.from THEN c
  ELSE tok_user(c, target_p, TokenFlags(c.arb.keep_new_modes, fl))

tok_sigils(c, sg) == tok_target(c, sg.fl, find_person(sg.s))

\* Lines 291-472: one token of the member list.
ProcessToken(c, tok) == tok_sigils(c, Sigils(tok, {}))

\* Lines 474-487: the step to the next token.
RECURSIVE MemberLoop(_, _)
next_token(c, p) ==
  IF c.ret # "run" \/ p.null THEN c
  ELSE MemberLoop(c, Split(SkipSpaces(p.s)))

\* Lines 291-488: the loop over the tokens; sp is the current token and the
\* rest of the list.
MemberLoop(c, sp) ==
  IF sp.tok = <<>> THEN c ELSE next_token(ProcessToken(c, sp.tok), sp.p)

---------------------------------------------------------------------------
(* ms_sjoin.  The handler is a chain of steps over its local variables c:  *)
(* c.ret is "run" until the handler returns, and a step leaves c alone     *)
(* once it has.                                                            *)

\* The local variables on entry.
sj_enter(chs, ignore, hide, m) ==
  [chs |-> chs, ignore |-> ignore, hide |-> hide, m |-> m, ret |-> "run",
   pm |-> [ok |-> TRUE, mode |-> NoMode, args |-> 0], parsed |-> 0,
   isnew |-> FALSE, chptr |-> channel_make(Parv(m, 2)), oldts |-> 0,
   oldmode |-> NoMode, newts |-> 0, arb |-> Arbitrate(TRUE, 0, 0),
   mode |-> NoMode, fm |-> [mbuf |-> <<>>, pbuf |-> <<>>],
   local |-> <<>>, server |-> <<>>, realops |-> <<>>,
   modebuf |-> <<>>, parabuf |-> <<>>,
   hdr |-> SjoinHeader(0, Parv(m, 2), <<>>, <<>>), toks |-> <<>>, len |-> 0,
   mpos |-> 1, para |-> <<>>, joined |-> <<>>]

\* Lines 99-143: the channel name is checked, the timestamp and the mode
\* letters are read.
sj_parse(c) ==
  IF ~channel_check_name(Parv(c.m, 2))
  THEN [c EXCEPT !.ret = "bad_name", !.realops = <<"invalid_channel_name">>]
  ELSE IF ~ParseModes(c.m, 1, NoMode, 0).ok
  THEN [c EXCEPT !.ret = "few_args"]
  ELSE [c EXCEPT !.pm = ParseModes(c.m, 1, NoMode, 0),
                 !.parsed = strtoumax(Parv(c.m, 1))]

\* Lines 145-149: the channel is looked up, and made when it is not there.
sj_find(c) ==
  IF c.ret # "run" THEN c
  ELSE IF hash_find_channel(c.chs, Parv(c.m, 2))
  THEN [c EXCEPT !.isnew = FALSE, !.chptr = c.chs[Fold(Parv(c.m, 2))]]
  ELSE [c EXCEPT !.isnew = TRUE, !.chptr = channel_make(Parv(c.m, 2))]

\* Lines 151-152.
sj_old(c) ==
  IF c.ret # "run" THEN c
  ELSE [c EXCEPT !.oldts = c.chptr.creationtime, !.oldmode = c.chptr.mode]

\* Lines 154-177: a timestamp below the floor is replaced, or the change of
\* the timestamp to 0 is announced.
sj_bogus(c) ==
  IF c.ret # "run" THEN c
  ELSE IF c.ignore
  THEN IF c.parsed < BOGUS_TS_FLOOR
       THEN [c EXCEPT !.newts = BogusTS(c.ignore, c.parsed, c.oldts),
                      !.realops = @ \o <<"bogus_ts">>]
       ELSE [c EXCEPT !.newts = BogusTS(c.ignore, c.parsed, c.oldts)]
  ELSE IF c.parsed = 0 /\ ~c.isnew /\ c.oldts # 0
  THEN [c EXCEPT !.newts = BogusTS(c.ignore, c.parsed, c.oldts),
                 !.local = @ \o <<TSNotice(c.chptr.name, c.oldts, 0)>>,
                 !.realops = @ \o <<"ts_to_zero">>]
  ELSE [c EXCEPT !.newts = BogusTS(c.ignore, c.parsed, c.oldts)]

\* Lines 179-194.
sj_arbitrate(c) ==
  IF c.ret # "run" THEN c
  ELSE [c EXCEPT !.arb = Arbitrate(c.isnew, c.newts, c.oldts),
                 !.chptr.creationtime =
                    Arbitrate(c.isnew, c.newts, c.oldts).creationtime]

\* Lines 196-206.
sj_merge(c) ==
  IF c.ret # "run" THEN c
  ELSE [c EXCEPT !.mode = MergeMode(c.pm.mode, c.oldmode,
                                    c.arb.keep_our_modes, c.arb.keep_new_modes)]

\* Lines 208-209: the difference to the old mode is written to modebuf and
\* parabuf, and the channel gets the mode.
sj_final(c) ==
  IF c.ret # "run" THEN c
  ELSE [c EXCEPT !.fm = set_final_mode(c.mode, c.oldmode),
                 !.modebuf = BufPuts(<<>>, 1, set_final_mode(c.mode, c.oldmode).mbuf),
                 !.parabuf = set_final_mode(c.mode, c.oldmode).pbuf,
                 !.chptr.mode = c.mode]

\* Lines 215-216: the channel takes the spelling of the message.
sj_name(c) ==
  IF ~c.isnew THEN [c EXCEPT !.chptr.name = Parv(c.m, 2)] ELSE c

\* Line 218.
put_members(c, r) ==
  [c EXCEPT !.chptr.members = r.members, !.local = @ \o r.lines]

sj_unmode(c) ==
  put_members(c, remove_our_modes(c.chptr.members, c.hide, c.chptr.name))

\* Lines 220-222.
put_banlist(c, r) ==
  [c EXCEPT !.chptr.banlist = r.list, !.local = @ \o r.lines]

put_exceptlist(c, r) ==
  [c EXCEPT !.chptr.exceptlist = r.list, !.local = @ \o r.lines]

put_invexlist(c, r) ==
  [c EXCEPT !.chptr.invexlist = r.list, !.local = @ \o r.lines]

sj_unban(c) ==
  put_banlist(c, remove_ban_list(c.chptr.banlist, "b", c.chptr.name))

sj_unexcept(c) ==
  put_exceptlist(c, remove_ban_list(c.chptr.exceptlist, "e", c.chptr.name))

sj_uninvex(c) ==
  put_invexlist(c, remove_ban_list(c.chptr.invexlist, "I", c.chptr.name))

\* Lines 227-234.
sj_topic(c) ==
  IF c.chptr.topic # ""
  THEN [c EXCEPT !.chptr.topic = "",
                 !.local = @ \o <<TopicLine(Servername(c.hide), c.chptr.name)>>]
  ELSE c

\* Lines 236-239.
sj_tsnotice(c) ==
  [c EXCEPT !.local = @ \o <<TSNotice(c.chptr.name, c.oldts, c.newts)>>]

\* The lost branch with the notice of the timestamp sent first.
sj_lost_NoticeFirst(c) ==
  IF c.ret # "run" THEN c
  ELSE IF ~c.arb.keep_our_modes
  THEN sj_topic(sj_uninvex(sj_unexcept(sj_unban(sj_unmode(sj_tsnotice(sj_name(c)))))))
  ELSE c

\* Lines 212-240: the local side lost.
sj_lost(c) ==
  IF c.ret # "run" THEN c
  ELSE IF ~c.arb.keep_our_modes
  THEN sj_tsnotice(sj_topic(sj_uninvex(sj_unexcept(sj_unban(sj_unmode(sj_name(c)))))))
  ELSE c

\* Lines 242-248: the difference of the modes is told to the local members.
sj_delta(c) ==
  IF c.ret # "run" THEN c
  ELSE IF CStr(c.modebuf) # <<>>
  THEN [c EXCEPT !.local = @ \o <<ModeLine(Servername(c.hide), c.chptr.name,
                                           CStr(c.modebuf), c.parabuf)>>]
  ELSE c

\* Lines 250-256: the modes to relay; parabuf keeps what set_final_mode
\* wrote when channel_modes is not called.
sj_relaymode(c) ==
  IF c.ret # "run" THEN c
  ELSE IF ((Parv(c.m, 3) = <<>>) \/ (Head(Parv(c.m, 3)) # "0"))
          /\ c.arb.keep_new_modes
  THEN [c EXCEPT !.modebuf = BufPuts(@, 1, channel_modes(c.chptr.mode).mbuf),
                 !.parabuf = channel_modes(c.chptr.mode).pbuf]
  ELSE [c EXCEPT !.modebuf = BufPuts(@, 1, <<"0">>)]

\* Lines 258-261.
sj_header(c) ==
  IF c.ret # "run" THEN c
  ELSE [c EXCEPT !.hdr = SjoinHeader(c.arb.tstosend, c.chptr.name,
                                     CStr(c.modebuf), c.parabuf),
                 !.len = SjoinHeader(c.arb.tstosend, c.chptr.name,
                                     CStr(c.modebuf), c.parabuf).len]

\* Lines 267-273.
sj_long(c) ==
  IF c.ret # "run" THEN c
  ELSE IF c.len >= (IRCD_BUFSIZE - IDLEN - 2 - CMEMBER_STATUS_FLAGS_LEN - 1)
  THEN [c EXCEPT !.ret = "long_sjoin", !.realops = @ \o <<"long_sjoin">>]
  ELSE c

\* Lines 275-276: modebuf is used again for the privilege letters.
sj_mbuf(c) ==
  IF c.ret # "run" THEN c
  ELSE [c EXCEPT !.modebuf = BufPut(@, 1, "+"), !.mpos = 2]

\* Lines 278-488.
sj_members(c) ==
  IF c.ret # "run" THEN c
  ELSE MemberLoop(c, Split(SkipSpaces(Parv(c.m, c.pm.args + 4))))

\* The end of the list that sends no line for the letters left over.
sj_lastmode_DropsLeftover(c) ==
  IF c.ret # "run" THEN c
  ELSE [c EXCEPT !.modebuf = BufPut(@, c.mpos, NUL)]

\* Lines 490-513: the privilege letters left over are sent.
sj_lastmode(c) ==
  IF c.ret # "run" THEN c
  ELSE IF Len(c.para) # 0
  THEN [c EXCEPT !.modebuf = BufPut(@, c.mpos, NUL),
                 !.local = @ \o <<ModeLine(Servername(c.hide), c.chptr.name,
                                           CStr(BufPut(c.modebuf, c.mpos, NUL)),
                                           c.para)>>]
  ELSE [c EXCEPT !.modebuf = BufPut(@, c.mpos, NUL)]

\* Lines 491 and 522-531: the last byte of uid_buf (the space after the last
\* token, or the ':' of the header) is cut, and the line is relayed unless
\* the channel is new and empty or the member list is the empty string.
sj_relay(c) ==
  IF c.ret # "run" THEN c
  ELSE IF Len(c.chptr.members) = 0 /\ c.isnew
  THEN [c EXCEPT !.ret = "channel_free"]
  ELSE IF Parv(c.m, c.pm.args + 4) = <<>>
  THEN [c EXCEPT !.ret = "empty_list"]
  ELSE [c EXCEPT !.ret = "relayed",
                 !.server = @ \o <<SjoinLine(c.hdr, c.toks, c.toks # <<>>, FALSE)>>]

\* The Channel Store when the handler has returned: a channel that was
\* found or made is in it unless it was freed.
sj_store(c) ==
  IF c.ret \in {"bad_name", "few_args", "channel_free"} THEN c.chs
  ELSE [n \in (DOMAIN c.chs) \cup {Fold(Parv(c.m, 2))} |->
          IF n = Fold(Parv(c.m, 2)) THEN c.chptr ELSE c.chs[n]]

\* What a call leaves behind: the Channel Store, the lines sent, how the
\* call ended, and the values its arbitration worked with.
sj_result(c) ==
  [channels |-> sj_store(c), local |-> c.local, server |-> c.server,
   realops |-> c.realops, ret |-> c.ret, isnew |-> c.isnew,
   oldts |-> c.oldts, newts |-> c.newts, mode |-> c.pm.mode,
   keep_our_modes |-> c.arb.keep_our_modes,
   keep_new_modes |-> c.arb.keep_new_modes, joined |-> c.joined]

sj_upto_mode(c) == sj_final(sj_merge(sj_arbitrate(sj_bogus(sj_old(sj_find(sj_parse(c)))))))

sj_upto_header(c) == sj_long(sj_header(sj_relaymode(sj_delta(sj_lost(sj_upto_mode(c))))))

\* ms_sjoin(source_p, parc, parv) on the Channel Store chs.
ms_sjoin(chs, ignore, hide, m) ==
  sj_result(sj_relay(sj_lastmode(sj_members(sj_mbuf(sj_upto_header(
    sj_enter(chs, ignore, hide, m)))))))

---------------------------------------------------------------------------
(* The state machine.                                                      *)

NoCall ==
  [ret |-> "none", m |-> [parc |-> 0, parv |-> <<>>], pre |-> <<>>,
   ignore |-> FALSE, isnew |-> FALSE, oldts |-> 0, newts |-> 0,
   mode |-> NoMode, keep_our_modes |-> TRUE, keep_new_modes |-> TRUE,
   joined |-> <<>>]

\* No call of set_final_mode on its own.
NoDelta ==
  [oldmode |-> NoMode, mode |-> NoMode, called |-> FALSE,
   mbuf |-> <<>>, pbuf |-> <<>>]

---------------------------------------------------------------------------
(* whowas.c: the history of nicknames.  A struct Whowas is a slot of the    *)
(* pool; it is linked in whowas_list (lnode), in the bucket of its name     *)
(* (tnode) and, while its client exists, in the client's list (cnode).      *)
(* Every list has its newest entry at the head.                             *)

\* The slots of the pool, the clients and the nicknames of the model.
WhowasSlots == 1..MaxHistory
Clients == {"c1", "c2"}
Nicks == {"x", "X", "y", "z"}

\* strhash and irccmp take no account of case; "x" and "y" share a bucket.
ToLower(n) == IF n = "X" THEN "x" ELSE n
strhash(name) == IF ToLower(name) = "z" THEN 1 ELSE 0
irccmp(a, b) == IF ToLower(a) = ToLower(b) THEN 0 ELSE 1
Buckets == {0, 1}

\* dlinkAdd puts a node at the head of a list; dlinkDelete takes it out.
dlinkAdd(w, list) == <<w>> \o list
dlinkDelete(w, list) == SelectSeq(list, LAMBDA e : e # w)

\* A slot nobody uses (what it holds is never read), and the empty history.
FreeSlot == [hashv |-> 0, name |-> "", logoff |-> 0, online |-> NULL]

EmptyHistory ==
  [whowas_list |-> <<>>,
   WHOWASHASH |-> [b \in Buckets |-> <<>>],
   client_whowas |-> [c \in Clients |-> <<>>],
   pool |-> [w \in WhowasSlots |-> FreeSlot],
   used |-> {}]

\* whowas_list.tail->data.
Tail_data(h) == h.whowas_list[Len(h.whowas_list)]

\* whowas_unlink that leaves the entry in its client's list.
whowas_unlink_KeepsClientNode(h, w) ==
  [h EXCEPT
     !.WHOWASHASH[h.pool[w].hashv] = dlinkDelete(w, @),
     !.whowas_list = dlinkDelete(w, @)]

\* whowas_unlink(whowas) for an entry that is linked.
whowas_unlink(h, w) ==
  [h EXCEPT
     !.client_whowas =
        IF h.pool[w].online # NULL
        THEN [@ EXCEPT ![h.pool[w].online] = dlinkDelete(w, @)]
        ELSE @,
     !.WHOWASHASH[h.pool[w].hashv] = dlinkDelete(w, @),
     !.whowas_list = dlinkDelete(w, @)]

\* mp_pool_release: the slot goes back to the pool.
mp_pool_release(h, w) ==
  [h EXCEPT !.used = @ \ {w}, !.pool[w] = FreeSlot]

\* whowas_free(whowas).
whowas_free(h, w) == mp_pool_release(whowas_unlink(h, w), w)

\* mp_pool_get: a slot nobody uses (the model takes the lowest).
mp_pool_get(h) == CHOOSE w \in WhowasSlots \ h.used :
                    \A v \in WhowasSlots \ h.used : w <= v

\* whowas_make(): the slot to fill and the history it is taken from.
whowas_make(h, length) ==
  IF Len(h.whowas_list) >= length
  THEN [h |-> whowas_unlink(h, Tail_data(h)), w |-> Tail_data(h)]
  ELSE [h |-> [h EXCEPT !.used = @ \cup {mp_pool_get(h)}], w |-> mp_pool_get(h)]

\* whowas_trim(): the loop of lines 106-112.  The list is not empty when the
\* loop test holds, the length being at least 1.
RECURSIVE whowas_trim(_, _)
whowas_trim(h, length) ==
  IF Len(h.whowas_list) >= length
  THEN whowas_trim(whowas_free(h, Tail_data(h)), length)
  ELSE h

\* Lines 131-152: the slot is filled and linked.
whowas_fill(h, w, now, client_p, name, online) ==
  [h EXCEPT
     !.pool[w] = [hashv |-> strhash(name), name |-> name, logoff |-> now,
                  online |-> IF online THEN client_p ELSE NULL],
     !.client_whowas = IF online THEN [@ EXCEPT ![client_p] = dlinkAdd(w, @)]
                       ELSE @,
     !.WHOWASHASH[strhash(name)] = dlinkAdd(w, @),
     !.whowas_list = dlinkAdd(w, @)]

\* whowas_add_history(client_p, online) for a client named name.
whowas_add_history(h, length, now, client_p, name, online) ==
  whowas_fill(whowas_make(h, length).h, whowas_make(h, length).w,
              now, client_p, name, online)

\* whowas_off_history that forgets the client's list but leaves the entries
\* pointing to the client.
whowas_off_history_KeepsOnline(h, client_p) ==
  [h EXCEPT !.client_whowas[client_p] = <<>>]

\* whowas_off_history(client_p).
RECURSIVE whowas_off_history(_, _)
whowas_off_history(h, client_p) ==
  IF h.client_whowas[client_p] # <<>>
  THEN whowas_off_history(
         [h EXCEPT !.pool[Head(h.client_whowas[client_p])].online = NULL,
                   !.client_whowas[client_p] = Tail(@)],
         client_p)
  ELSE h

\* Lines 183 and 189: timelimit is unsigned, so CurrentTime - timelimit
\* wraps to a value above every log-off time when timelimit is the larger.
TooOld(logoff, now, timelimit) ==
  IF timelimit > now THEN TRUE ELSE logoff < now - timelimit

\* whowas_get_history that looks for an entry whose client still exists.
RECURSIVE whowas_get_history_SkipsOffline(_, _, _, _, _)
whowas_get_history_SkipsOffline(h, bucket, now, name, timelimit) ==
  IF bucket = <<>> THEN NULL
  ELSE IF TooOld(h.pool[Head(bucket)].logoff, now, timelimit)
          \/ irccmp(name, h.pool[Head(bucket)].name) # 0
          \/ h.pool[Head(bucket)].online = NULL
       THEN whowas_get_history_SkipsOffline(h, Tail(bucket), now, name, timelimit)
       ELSE h.pool[Head(bucket)].online

\* whowas_get_history(name, timelimit): the loop over the rest of the
\* bucket of the name.
RECURSIVE whowas_get_history(_, _, _, _, _)
whowas_get_history(h, bucket, now, name, timelimit) ==
  IF bucket = <<>> THEN NULL
  ELSE IF TooOld(h.pool[Head(bucket)].logoff, now, timelimit)
          \/ irccmp(name, h.pool[Head(bucket)].name) # 0
       THEN whowas_get_history(h, Tail(bucket), now, name, timelimit)
       ELSE h.pool[Head(bucket)].online

\* No call of a whowas function is pending.
NoWhowasCall ==
  [op |-> "none", pre |-> EmptyHistory, length |-> 1, client_p |-> NULL,
   name |-> "", online |-> FALSE, timelimit |-> 0, ret |-> NULL]

\* No exchange between two servers is modelled.
NoPeers == <<>>

\* No history is kept.
WhowasIdle ==
  /\ history = EmptyHistory
  /\ whowas_history_length = 1
  /\ clock = CurrentTime
  /\ ww_last = NoWhowasCall

OtherIdle == peers = NoPeers /\ WhowasIdle

Init ==
  /\ channels = <<>>
  /\ ignore_bogus_ts \in BOOLEAN
  /\ hide_servers = FALSE
  /\ out_local = <<>>
  /\ out_server = <<>>
  /\ out_realops = <<>>
  /\ last = NoCall
  /\ delta = NoDelta
  /\ OtherIdle

\* An SJOIN message: parv[1] the timestamp, parv[2] the channel, parv[3] the
\* mode letters, then the parameters the sender gave, the member list last.
Message(ts, chname, modes, rest) ==
  [parc |-> 4 + Len(rest), parv |-> <<"SJOIN", ts, chname, modes>> \o rest]

\* The call for message m has returned r: the Channel Store and the lines
\* are as the call left them, and last records the call.
Returned(m, r) ==
  /\ channels' = r.channels
  /\ out_local' = r.local
  /\ out_server' = r.server
  /\ out_realops' = r.realops
  /\ last' = [ret |-> r.ret, m |-> m, pre |-> channels,
              ignore |-> ignore_bogus_ts,
              isnew |-> r.isnew, oldts |-> r.oldts, newts |-> r.newts,
              mode |-> r.mode, keep_our_modes |-> r.keep_our_modes,
              keep_new_modes |-> r.keep_new_modes, joined |-> r.joined]

\* The server receives one of the messages of Msgs and ms_sjoin runs to its
\* return.
SJoin(Msgs) ==
  /\ last.ret = "none"
  /\ \E m \in Msgs :
       Returned(m, ms_sjoin(channels, ignore_bogus_ts, hide_servers, m))
  /\ UNCHANGED <<ignore_bogus_ts, hide_servers, delta>>
  /\ UNCHANGED other_vars

\* The lines of the call are written out; the server reads its next message.
Return ==
  /\ last.ret # "none"
  /\ last' = NoCall
  /\ out_local' = <<>>
  /\ out_server' = <<>>
  /\ out_realops' = <<>>
  /\ UNCHANGED <<channels, ignore_bogus_ts, hide_servers, delta>>
  /\ UNCHANGED other_vars

\* The configuration is read again with another general::ignore_bogus_ts.
RehashBogusTS ==
  /\ last.ret = "none"
  /\ ignore_bogus_ts' = ~ignore_bogus_ts
  /\ UNCHANGED <<channels, hide_servers, out_local, out_server, out_realops,
                 last, delta>>
  /\ UNCHANGED other_vars

\* A mask is added to a list of a channel (a MODE +b, +e or +I): the list
\* gets its next mask, at its head, up to maxb masks.
AddBan(maxb) ==
  /\ last.ret = "none"
  /\ \E n \in DOMAIN channels, f \in {"banlist", "exceptlist", "invexlist"} :
       /\ Len(channels[n][f]) < maxb
       /\ channels' = [channels EXCEPT
                         ![n][f] = <<Ban(Len(channels[n][f]) + 1)>> \o @]
  /\ UNCHANGED <<ignore_bogus_ts, hide_servers, out_local, out_server,
                 out_realops, last, delta>>
  /\ UNCHANGED other_vars

\* A topic is set on a channel that has none (a TOPIC).
SetTopic ==
  /\ last.ret = "none"
  /\ \E n \in DOMAIN channels :
       /\ channels[n].topic = ""
       /\ channels' = [channels EXCEPT ![n].topic = "hello"]
  /\ UNCHANGED <<ignore_bogus_ts, hide_servers, out_local, out_server,
                 out_realops, last, delta>>
  /\ UNCHANGED other_vars

\* The timestamps, mode requests and member lists the servers of the model
\* send.
TS0 == <<"0">>
TS1 == <<"1">>
TSFloor == <<"8", "0", "0", "0", "0", "0", "0", "0", "0">>
TSFloor1 == <<"8", "0", "0", "0", "0", "0", "0", "0", "1">>
TSStrings == {TS0, TS1, TSFloor, TSFloor1}

KeyA == <<"a">>
KeyB == <<"b">>
KeyAA == <<"a", "a">>

\* Spec: arbitration and merge of the modes, one user joining.
ModeRequests ==
  { <<<<"0">>>>, <<<<"n">>>>, <<<<"t">>>>, <<<<"b", "x", "n", "t">>>>,
    <<<<"k">>, KeyA>>, <<<<"k">>, KeyB>>, <<<<"n", "k">>, KeyAA>>,
    <<<<"l">>, <<"1">>>>, <<<<"t", "l">>, <<"2">>>>,
    <<<<"n", "l", "k">>, <<"1">>, KeyB>> }

SpecMsgs ==
  { Message(ts, "#a", mr[1], Tail(mr) \o <<<<"1", "A">>>>) :
      ts \in TSStrings, mr \in ModeRequests }

\* SpecChan: the whole channel (members, mask lists, topic) under the
\* arbitration.
ChanRequests ==
  { <<<<"0">>>>,
    <<<<"n", "l", "k">>, <<"1">>, KeyA>> }

ChanLists ==
  { <<"@", "1", "A">>,
    <<"+", "2", "C", " ", "@", "%", "+", "1", "B", " ", "9", "Z">>,
    <<"1", "B", " ", " ", "@", "1", "A", " ", "+", "1", "A">> }

ChanMsgs ==
  { Message(ts, "#a", mr[1], Tail(mr) \o <<list>>) :
      ts \in {TS0, TS1, TSFloor, TSFloor1}, mr \in ChanRequests,
      list \in ChanLists }

\* SpecBan: long mask lists, removed when the local side loses.
BanMsgs ==
  { Message(ts, "#a", <<"0">>, <<list>>) :
      ts \in {TSFloor, TSFloor1}, list \in {<<"1", "A">>, <<"@", "1", "B">>} }

Next ==
  \/ SJoin(SpecMsgs)
  \/ Return
  \/ RehashBogusTS

Spec == Init /\ [][Next]_vars

NextChan ==
  \/ SJoin(ChanMsgs)
  \/ Return
  \/ RehashBogusTS
  \/ AddBan(MaxBansChan)
  \/ SetTopic

SpecChan == Init /\ [][NextChan]_vars

NextBan ==
  \/ SJoin(BanMsgs)
  \/ Return
  \/ AddBan(MaxBans)

SpecBan == Init /\ [][NextBan]_vars

\* SpecDelta: set_final_mode on its own, for every pair of modes over the
\* flags of cmode_tab, the limits up to MaxLimit and the keys of DeltaKeys.
DeltaKeys == {<<>>, KeyA, KeyB}

DeltaModes ==
  [mode : SUBSET {"n", "t"}, limit : 0..MaxLimit, key : DeltaKeys]

InitDelta ==
  /\ channels = <<>>
  /\ ignore_bogus_ts = FALSE
  /\ hide_servers = FALSE
  /\ out_local = <<>>
  /\ out_server = <<>>
  /\ out_realops = <<>>
  /\ last = NoCall
  /\ \E old \in DeltaModes, new \in DeltaModes :
       delta = [oldmode |-> old, mode |-> new, called |-> FALSE,
                mbuf |-> <<>>, pbuf |-> <<>>]
  /\ OtherIdle

\* set_final_mode(&mode, oldmode, modebuf, parabuf) runs.
SetFinalMode ==
  /\ ~delta.called
  /\ delta' = [delta EXCEPT
                 !.called = TRUE,
                 !.mbuf = set_final_mode(delta.mode, delta.oldmode).mbuf,
                 !.pbuf = set_final_mode(delta.mode, delta.oldmode).pbuf]
  /\ UNCHANGED <<channels, ignore_bogus_ts, hide_servers, out_local,
                 out_server, out_realops, last>>
  /\ UNCHANGED other_vars

NextDelta == SetFinalMode

SpecDelta == InitDelta /\ [][NextDelta]_vars

\* SpecLong: lines as long as the buffers allow.  A list names dave, whose
\* id has the full length, again and again (every token that names a user
\* behind the link is written to uid_buf), and a channel has a name long
\* enough for the SJOIN header to fill uid_buf.
RECURSIVE Repeat(_, _)
Repeat(tok, n) ==
  IF n = 0 THEN <<>> ELSE tok \o <<" ">> \o Repeat(tok, n - 1)

DaveAll == <<"@", "%", "+">> \o Client("dave").id

LongLists ==
  { Repeat(DaveAll, n) \o tail :
      n \in MinTokens..MaxTokens,
      tail \in {<<"1", "A">>, <<"+", "2", "C", " ", "+", "1", "B">>} }

LongMsgs ==
  { Message(ts, "#a", <<"0">>, <<list>>) :
      ts \in {TS0, TSFloor}, list \in LongLists }

LongNameMsgs ==
  { Message(ts, "#long", mr[1], Tail(mr) \o <<list>>) :
      ts \in {TS0, TSFloor},
      mr \in {<<<<"0">>>>, <<<<"n">>>>, <<<<"k">>, KeyA>>},
      list \in {Repeat(DaveAll, 2) \o <<"@", "1", "A">>, <<"1", "B">>,
                <<"2", "C">>} }

\* Messages the handler gives up on at once: a name channel_check_name
\* refuses, and a k or an l with no parameter before the member list (the
\* only one, or the second of two).
MalformedMsgs ==
  { Message(TSFloor, "a", <<"0">>, <<<<"1", "A">>>>),
    Message(TSFloor, "#a", <<"n", "k">>, <<<<"1", "A">>>>),
    Message(TS0, "#a", <<"l">>, <<<<"1", "A">>>>),
    Message(TS0, "#a", <<"k", "l">>, <<KeyA, <<"1", "A">>>>) }

NextLong ==
  \/ SJoin(LongMsgs)
  \/ SJoin(LongNameMsgs)
  \/ SJoin(MalformedMsgs)
  \/ Return
  \/ RehashBogusTS

SpecLong == Init /\ [][NextLong]_vars

---------------------------------------------------------------------------
(* What the claims speak of, in a state where a call has just returned.     *)

\* The call got as far as the arbitration (it did not return on a bad
\* channel name or a missing mode argument).
Arbitrated == last.ret \notin {"none", "bad_name", "few_args"}

\* The channel of the message before and after the call.
ChanKey == Fold(last.m.parv[3])
Existed == Arbitrated /\ ~last.isnew
Pre == last.pre[ChanKey]
Post == channels[ChanKey]
Kept == ChanKey \in DOMAIN channels

\* The timestamp and the mode carried by the message.
IncomingTS == strtoumax(last.m.parv[2])
IncomingMode == last.mode

\* The message's timestamp was replaced by the floor (or by 0).
Clamped == last.ignore /\ IncomingTS < BOGUS_TS_FLOOR

Max(a, b) == IF a > b THEN a ELSE b

---------------------------------------------------------------------------
(* C1 (as stated): an SJOIN for a channel not in the Channel Store that     *)
(* joins at least one user leaves the channel with the timestamp carried by *)
(* the message and with exactly the mode carried by the message, for every  *)
(* timestamp and under either bogus-timestamp policy.                       *)
C1_NewChannelTakesIncoming ==
  (Arbitrated /\ last.isnew /\ last.joined # <<>>)
    => (Kept /\ Post.creationtime = IncomingTS /\ Post.mode = IncomingMode)

(* C1 (amended): the same, except that with ignore_bogus_ts set a carried   *)
(* timestamp below 800000000 is replaced by 800000000.                      *)
C1_NewChannelTakesIncomingOrFloor ==
  (Arbitrated /\ last.isnew /\ last.joined # <<>>)
    => /\ Kept
       /\ Post.creationtime = IF Clamped THEN BOGUS_TS_FLOOR ELSE IncomingTS
       /\ Post.mode = IncomingMode

C1_Witness ==
  /\ Arbitrated /\ last.isnew /\ last.joined # <<>>
  /\ Clamped
  /\ Post.mode.mode # {} /\ Post.mode.key # <<>>

(* C2 (as stated): an SJOIN for an existing channel whose non-zero          *)
(* timestamp equals the channel's leaves the timestamp unchanged, the flag  *)
(* bits the union of both sides' and the limit the larger of both.          *)
C2_EqualTSMerges ==
  (Existed /\ IncomingTS # 0 /\ IncomingTS = Pre.creationtime)
    => /\ Post.creationtime = Pre.creationtime
       /\ Post.mode.mode = Pre.mode.mode \cup IncomingMode.mode
       /\ Post.mode.limit = Max(Pre.mode.limit, IncomingMode.limit)

(* C2 (amended): the same for a timestamp that ignore_bogus_ts does not     *)
(* replace (the policy is off, or the timestamp is at least 800000000).     *)
C2_EqualTSMergesUnlessClamped ==
  (Existed /\ IncomingTS # 0 /\ IncomingTS = Pre.creationtime /\ ~Clamped)
    => /\ Post.creationtime = Pre.creationtime
       /\ Post.mode.mode = Pre.mode.mode \cup IncomingMode.mode
       /\ Post.mode.limit = Max(Pre.mode.limit, IncomingMode.limit)

C2_Witness ==
  /\ Existed /\ IncomingTS # 0 /\ IncomingTS = Pre.creationtime /\ ~Clamped
  /\ Pre.mode.mode \ IncomingMode.mode # {}
  /\ IncomingMode.mode \ Pre.mode.mode # {}
  /\ Pre.mode.limit > IncomingMode.limit /\ IncomingMode.limit > 0

\* The call merged the modes of both sides on equal non-zero timestamps.
MergedOnEqualTS ==
  /\ Existed /\ last.keep_our_modes /\ last.keep_new_modes
  /\ last.newts = last.oldts /\ last.oldts # 0

(* C3 (as stated): when modes are merged on equal non-zero timestamps and   *)
(* both keys are non-empty the resulting key is the lexicographically       *)
(* smaller one; when exactly one is non-empty it is that one.               *)
C3_MergedKeyIsSmaller ==
  MergedOnEqualTS
    => /\ (Pre.mode.key # <<>> /\ IncomingMode.key # <<>>)
            => Post.mode.key = IF strcmp(Pre.mode.key, IncomingMode.key) < 0
                               THEN Pre.mode.key ELSE IncomingMode.key
       /\ (Pre.mode.key = <<>>) => Post.mode.key = IncomingMode.key
       /\ (IncomingMode.key = <<>>) => Post.mode.key = Pre.mode.key

(* C3 (amended): when both keys are non-empty the resulting key is the      *)
(* lexicographically larger one (strcmp); when exactly one is non-empty it  *)
(* is that one.                                                             *)
C3_MergedKeyIsLarger ==
  MergedOnEqualTS
    => /\ (Pre.mode.key # <<>> /\ IncomingMode.key # <<>>)
            => Post.mode.key = IF strcmp(Pre.mode.key, IncomingMode.key) > 0
                               THEN Pre.mode.key ELSE IncomingMode.key
       /\ (Pre.mode.key = <<>>) => Post.mode.key = IncomingMode.key
       /\ (IncomingMode.key = <<>>) => Post.mode.key = Pre.mode.key

C3_Witness ==
  /\ MergedOnEqualTS
  /\ Pre.mode.key # <<>> /\ IncomingMode.key # <<>>
  /\ strcmp(Pre.mode.key, IncomingMode.key) > 0
  /\ Post.mode.key = Pre.mode.key

(* C4 (as stated): an SJOIN for an existing channel whose non-zero          *)
(* timestamp is strictly smaller than the channel's non-zero timestamp      *)
(* leaves the channel with the incoming timestamp and exactly the incoming  *)
(* mode.                                                                    *)
C4_OlderIncomingReplaces ==
  (Existed /\ IncomingTS # 0 /\ Pre.creationtime # 0
     /\ IncomingTS < Pre.creationtime)
    => (Post.creationtime = IncomingTS /\ Post.mode = IncomingMode)

\* The timestamp the arbitration uses for the message.
EffectiveTS ==
  IF Clamped THEN (IF Pre.creationtime = 0 THEN 0 ELSE BOGUS_TS_FLOOR)
  ELSE IncomingTS

(* C4 (amended): the same for the timestamp the arbitration uses, which is  *)
(* the carried one or, with ignore_bogus_ts set and the carried one below   *)
(* 800000000, the floor 800000000: when that timestamp is non-zero and      *)
(* strictly smaller than the channel's non-zero timestamp, the channel gets *)
(* that timestamp and exactly the incoming mode.                            *)
C4_OlderEffectiveReplaces ==
  (Existed /\ EffectiveTS # 0 /\ Pre.creationtime # 0
     /\ EffectiveTS < Pre.creationtime)
    => (Post.creationtime = EffectiveTS /\ Post.mode = IncomingMode)

C4_Witness ==
  /\ Existed /\ EffectiveTS # 0 /\ Pre.creationtime # 0
  /\ EffectiveTS < Pre.creationtime
  /\ Pre.mode.mode \ IncomingMode.mode # {}
  /\ Pre.mode.limit # 0 /\ IncomingMode.limit = 0
  /\ Pre.mode.key # <<>> /\ IncomingMode.key # Pre.mode.key

---------------------------------------------------------------------------
(* The member list of the message, as the claims about members read it.    *)

\* The member-list parameter of the message.
MemberList == Parv(last.m, ParseModes(last.m, 1, NoMode, 0).args + 4)

\* The tokens of a list, cut as the handler cuts them.
RECURSIVE TokensOf(_)
TokensOf(sp) ==
  IF sp.tok = <<>> THEN <<>>
  ELSE <<sp.tok>> \o (IF sp.p.null THEN <<>>
                      ELSE TokensOf(Split(SkipSpaces(sp.p.s))))

ListTokens == TokensOf(Split(SkipSpaces(MemberList)))

\* The user a token names and the privileges its sigils name.
TokenUser(tok) == find_person(Sigils(tok, {}).s)
TokenSigils(tok) == Sigils(tok, {}).fl

\* The user is known and behind the link the message came from.
Reachable(u) == u # NULL /\ Client(u).from = source_p.from

\* The privileges named for user u by the tokens of the message.
SigilsFor(u) ==
  UNION { TokenSigils(ListTokens[i]) :
            i \in { j \in DOMAIN ListTokens : TokenUser(ListTokens[j]) = u } }

\* The privileges named for user u by the first token that names u.
FirstSigilsFor(u) ==
  TokenSigils(ListTokens[CHOOSE i \in DOMAIN ListTokens :
                           /\ TokenUser(ListTokens[i]) = u
                           /\ \A j \in 1..(i - 1) : TokenUser(ListTokens[j]) # u])

Range(s) == { s[i] : i \in DOMAIN s }

\* The local side lost the arbitration; the incoming side lost it.
LocalLost == Existed /\ ~last.keep_our_modes
IncomingLost == Existed /\ ~last.keep_new_modes

(* C5: when the local side loses the arbitration every member of before    *)
(* the message is still a member and holds no Operator, HalfOperator or     *)
(* Voice flag; a member who holds a flag afterwards was added by this       *)
(* message, with a token that carried the sigil of that flag.               *)
C5_LostStripsLocalPrivileges ==
  LocalLost
    => /\ \A i \in DOMAIN Pre.members :
            /\ IsMember(Post.members, Pre.members[i].client_p)
            /\ FlagsAt(Post.members, Pre.members[i].client_p) = {}
       /\ \A i \in DOMAIN Post.members :
            Post.members[i].flags # {}
              => /\ ~IsMember(Pre.members, Post.members[i].client_p)
                 /\ Post.members[i].client_p \in Range(last.joined)
                 /\ Post.members[i].flags \subseteq SigilsFor(Post.members[i].client_p)

C5_Witness ==
  /\ LocalLost
  /\ \E i \in DOMAIN Pre.members : "CHFL_CHANOP" \in Pre.members[i].flags
  /\ \E i \in DOMAIN Post.members :
       Post.members[i].flags = {"CHFL_CHANOP", "CHFL_HALFOP", "CHFL_VOICE"}

\* The removal lines of the mask list of letter c, and their parameters in
\* the order sent.
IsRemovalB(l) ==
  l.cmd = "MODE" /\ Len(l.modebuf) >= 2 /\ l.modebuf[1] = "-" /\ l.modebuf[2] = "b"
IsRemovalE(l) ==
  l.cmd = "MODE" /\ Len(l.modebuf) >= 2 /\ l.modebuf[1] = "-" /\ l.modebuf[2] = "e"
IsRemovalI(l) ==
  l.cmd = "MODE" /\ Len(l.modebuf) >= 2 /\ l.modebuf[1] = "-" /\ l.modebuf[2] = "I"

RECURSIVE ParamsOf(_)
ParamsOf(lines) ==
  IF lines = <<>> THEN <<>> ELSE Head(lines).para \o ParamsOf(Tail(lines))

Count(s, e) == Cardinality({ i \in DOMAIN s : s[i] = e })

\* Every entry of list is a parameter of exactly one of the lines, and the
\* lines carry as many parameters as the list had entries.
RemovedOnce(list, lines) ==
  /\ \A i \in DOMAIN list : Count(ParamsOf(lines), list[i]) = 1
  /\ Len(ParamsOf(lines)) = Len(list)

(* C6: when the local side loses the arbitration the ban, exception and     *)
(* invite-exempt lists are empty afterwards, every entry they held is a     *)
(* parameter of exactly one removal line of its list, and the removal lines *)
(* of a list carry as many entries as the list held, also when a line is    *)
(* sent in the middle of the list.                                          *)
C6_LostEmptiesMaskLists ==
  LocalLost
    => /\ Post.banlist = <<>> /\ Post.exceptlist = <<>> /\ Post.invexlist = <<>>
       /\ RemovedOnce(Pre.banlist, SelectSeq(out_local, IsRemovalB))
       /\ RemovedOnce(Pre.exceptlist, SelectSeq(out_local, IsRemovalE))
       /\ RemovedOnce(Pre.invexlist, SelectSeq(out_local, IsRemovalI))

C6_Witness ==
  /\ LocalLost
  /\ Len(Pre.banlist) > MAXMODEPARAMS
  /\ Len(SelectSeq(out_local, IsRemovalB)) >= 2
  /\ Pre.exceptlist # <<>>
  /\ Pre.invexlist # <<>>

(* C7: an SJOIN for an existing channel whose timestamp is strictly greater *)
(* than the channel's non-zero timestamp leaves the channel's timestamp,    *)
(* mode, three mask lists, topic and the flags of the members it had as     *)
(* they were; the channel changes only by new members added in front.       *)
C7_NewerIncomingOnlyAddsMembers ==
  (Existed /\ Pre.creationtime # 0 /\ IncomingTS > Pre.creationtime)
    => /\ [Post EXCEPT !.members = Pre.members] = Pre
       /\ Len(Post.members) >= Len(Pre.members)
       /\ SubSeq(Post.members, Len(Post.members) - Len(Pre.members) + 1,
                 Len(Post.members)) = Pre.members
       /\ \A i \in 1..(Len(Post.members) - Len(Pre.members)) :
            ~IsMember(Pre.members, Post.members[i].client_p)

C7_Witness ==
  /\ Existed /\ Pre.creationtime # 0 /\ IncomingTS > Pre.creationtime
  /\ Pre.banlist # <<>> /\ Pre.exceptlist # <<>> /\ Pre.topic # ""
  /\ Pre.mode # IncomingMode
  /\ \E i \in DOMAIN Pre.members : Pre.members[i].flags # {}
  /\ last.joined # <<>>

\* A MODE line that grants or takes a member privilege.
HasPrivilegeLetter(l) ==
  l.cmd = "MODE" /\ \E i \in DOMAIN l.modebuf : l.modebuf[i] \in {"o", "h", "v"}

(* C8: when the incoming side loses the arbitration every known, reachable  *)
(* user of the member list who is no member yet joins with no privilege     *)
(* whatever sigils the token carried, no MODE line with an o, h or v unit   *)
(* is sent, and no token of the relayed SJOIN carries a sigil.              *)
C8_LosingIncomingJoinsUnprivileged ==
  IncomingLost
    => /\ \A i \in DOMAIN ListTokens :
            (/\ Reachable(TokenUser(ListTokens[i]))
             /\ ~IsMember(Pre.members, TokenUser(ListTokens[i])))
              => /\ IsMember(Post.members, TokenUser(ListTokens[i]))
                 /\ FlagsAt(Post.members, TokenUser(ListTokens[i])) = {}
       /\ \A i \in DOMAIN out_local : ~HasPrivilegeLetter(out_local[i])
       /\ \A i \in DOMAIN out_server :
            \A j \in DOMAIN out_server[i].toks :
              out_server[i].toks[j].prefix = <<>>

C8_Witness ==
  /\ IncomingLost
  /\ \E i \in DOMAIN ListTokens :
       /\ TokenSigils(ListTokens[i])
            = {"CHFL_CHANOP", "CHFL_HALFOP", "CHFL_VOICE"}
       /\ TokenUser(ListTokens[i]) \in Range(last.joined)
  /\ out_server # <<>>

\* The outcome C9 states: timestamp 0, modes merged, nothing of the local
\* side removed, the sigils of the message applied to the users it adds (a
\* user joins at the first token that names it).
ZeroTSOutcome ==
  /\ Post.creationtime = 0
  /\ Post.mode.mode = Pre.mode.mode \cup IncomingMode.mode
  /\ Post.mode.limit = Max(Pre.mode.limit, IncomingMode.limit)
  /\ Post.mode.key = IF strcmp(IncomingMode.key, Pre.mode.key) < 0
                     THEN Pre.mode.key ELSE IncomingMode.key
  /\ \A i \in DOMAIN Pre.members :
       /\ IsMember(Post.members, Pre.members[i].client_p)
       /\ FlagsAt(Post.members, Pre.members[i].client_p) = Pre.members[i].flags
  /\ Post.banlist = Pre.banlist
  /\ Post.exceptlist = Pre.exceptlist
  /\ Post.invexlist = Pre.invexlist
  /\ \A i \in DOMAIN ListTokens :
       (/\ Reachable(TokenUser(ListTokens[i]))
        /\ ~IsMember(Pre.members, TokenUser(ListTokens[i])))
         => /\ IsMember(Post.members, TokenUser(ListTokens[i]))
            /\ FlagsAt(Post.members, TokenUser(ListTokens[i]))
                 = FirstSigilsFor(TokenUser(ListTokens[i]))

(* C9 (as stated): an SJOIN for an existing channel where the incoming or   *)
(* the existing timestamp is 0 sets the channel's timestamp to 0, merges    *)
(* the modes of both sides, strips no member's flag, removes no mask and    *)
(* applies the incoming sigils to the users who join.                       *)
C9_ZeroTSMerges ==
  (Existed /\ (IncomingTS = 0 \/ Pre.creationtime = 0)) => ZeroTSOutcome

(* C9 (amended): the same when the existing timestamp is 0, or the incoming *)
(* timestamp is 0 and ignore_bogus_ts is off; the merged key is the larger  *)
(* of the two keys by strcmp.                                               *)
C9_ZeroTSMergesUnlessClamped ==
  (Existed /\ (Pre.creationtime = 0 \/ (IncomingTS = 0 /\ ~last.ignore)))
    => ZeroTSOutcome

C9_Witness ==
  /\ Existed /\ IncomingTS = 0 /\ ~last.ignore /\ Pre.creationtime # 0
  /\ IncomingMode # NoMode /\ Pre.mode = NoMode
  /\ \E i \in DOMAIN Pre.members : Pre.members[i].flags # {}
  /\ Pre.banlist # <<>>
  /\ \E i \in DOMAIN Post.members :
       /\ Post.members[i].client_p \in Range(last.joined)
       /\ Post.members[i].flags # {}

\* A mode change as its receiver reads it: letters after '-' are removed,
\* letters after '+' are added; an added l, an added k and a removed k take
\* the next parameter, a removed l takes none.  ok is FALSE when a letter
\* finds no parameter.
RECURSIVE ApplyDelta(_, _, _, _)
ApplyDelta(mode, mbuf, pbuf, sign) ==
  IF mbuf = <<>> THEN [ok |-> TRUE, mode |-> mode, pbuf |-> pbuf]
  ELSE IF Head(mbuf) \in {"+", "-"}
  THEN ApplyDelta(mode, Tail(mbuf), pbuf, Head(mbuf))
  ELSE IF Head(mbuf) = "l" /\ sign = "-"
  THEN ApplyDelta([mode EXCEPT !.limit = 0], Tail(mbuf), pbuf, sign)
  ELSE IF Head(mbuf) \in {"l", "k"} /\ pbuf = <<>>
  THEN [ok |-> FALSE, mode |-> mode, pbuf |-> pbuf]
  ELSE IF Head(mbuf) = "l"
  THEN ApplyDelta([mode EXCEPT !.limit = atoi(Head(pbuf))], Tail(mbuf),
                  Tail(pbuf), sign)
  ELSE IF Head(mbuf) = "k" /\ sign = "-"
  THEN ApplyDelta([mode EXCEPT !.key = <<>>], Tail(mbuf), Tail(pbuf), sign)
  ELSE IF Head(mbuf) = "k"
  THEN ApplyDelta([mode EXCEPT !.key = Head(pbuf)], Tail(mbuf), Tail(pbuf), sign)
  ELSE IF sign = "-"
  THEN ApplyDelta([mode EXCEPT !.mode = @ \ cmode_map(Head(mbuf)).mode],
                  Tail(mbuf), pbuf, sign)
  ELSE ApplyDelta([mode EXCEPT !.mode = @ \cup cmode_map(Head(mbuf)).mode],
                  Tail(mbuf), pbuf, sign)

(* C10: for every pair of modes over the flags of the table, a limit and a   *)
(* key, set_final_mode(mode, oldmode) writes no letter and no parameter     *)
(* when the two are equal, and otherwise letters and parameters whose       *)
(* application to oldmode, each letter taking its parameter in letter       *)
(* order, gives exactly mode and uses every parameter.                      *)
C10_DeltaRoundTrips ==
  delta.called
    => /\ (delta.oldmode = delta.mode)
            => (delta.mbuf = <<>> /\ delta.pbuf = <<>>)
       /\ (delta.oldmode # delta.mode)
            => /\ delta.mbuf # <<>>
               /\ ApplyDelta(delta.oldmode, delta.mbuf, delta.pbuf, "+")
                    = [ok |-> TRUE, mode |-> delta.mode, pbuf |-> <<>>]

C10_Witness ==
  /\ delta.called
  /\ delta.mbuf = <<"-", "n", "k", "+", "t", "l">>
  /\ delta.pbuf = <<KeyA, <<"1">>>>

---------------------------------------------------------------------------
(* The lengths of the lines, in bytes without the "\r\n".                  *)

\* A line of uid_buf: the header, the tokens with a space after each, less
\* the byte cut at line 491 when the line is the last one.
RECURSIVE ToksLen(_)
ToksLen(toks) ==
  IF toks = <<>> THEN 0
  ELSE Len(Head(toks).prefix) + Len(Head(toks).id) + 1 + ToksLen(Tail(toks))

SjoinLineLen(l) == l.hdr.len + ToksLen(l.toks) - (IF l.trail THEN 0 ELSE 1)

\* The parameters of a MODE line: " nick" for each privilege unit, the masks
\* "%s!%s@%s" with a space between them, or parabuf as set_final_mode wrote
\* it.
RECURSIVE NamesLen(_)
NamesLen(para) ==
  IF para = <<>> THEN 0 ELSE 1 + NameLen(Head(para)) + NamesLen(Tail(para))

RECURSIVE MasksLen(_)
MasksLen(para) ==
  IF para = <<>> THEN 0 ELSE Head(para).len + 2 + 1 + MasksLen(Tail(para))

IsRemoval(l) == IsRemovalB(l) \/ IsRemovalE(l) \/ IsRemovalI(l)

ModeParaLen(l) ==
  IF HasPrivilegeLetter(l) THEN NamesLen(l.para)
  ELSE IF IsRemoval(l) THEN MasksLen(l.para)
  ELSE 1 + ParaLen(l.para)

ModeLineLen(l) ==
  1 + NameLen(l.origin) + 6 + NameLen(l.chan) + 1 + Len(l.modebuf)
    + ModeParaLen(l)

MaxLineLen == IRCD_BUFSIZE - 2

(* C11: no line that ms_sjoin, remove_a_mode or remove_ban_list hands to    *)
(* the server relay or to the local members is longer than IRCD_BUFSIZE - 2 *)
(* bytes: the MODE lines to the local members and the lines of the relayed  *)
(* SJOIN all fit, because uid_buf is sent before the token that would cross *)
(* the budget is written to it.                                             *)
C11_NoLineExceedsBudget ==
  /\ \A i \in DOMAIN out_server : SjoinLineLen(out_server[i]) <= MaxLineLen
  /\ \A i \in DOMAIN out_local :
       out_local[i].cmd = "MODE" => ModeLineLen(out_local[i]) <= MaxLineLen

\* The tokens of all the lines of the relayed SJOIN, in the order sent.
RECURSIVE ToksOfLines(_)
ToksOfLines(lines) ==
  IF lines = <<>> THEN <<>> ELSE Head(lines).toks \o ToksOfLines(Tail(lines))

\* What the handler writes for a token that names a known user behind the
\* link of the message: the sigils the arbitration leaves it, and the id.
Reencoded(tok, keep) ==
  [prefix |-> UidPrefix(TokenFlags(keep, TokenSigils(tok))),
   id |-> Client(TokenUser(tok)).id]

RECURSIVE ReencodedList(_, _)
ReencodedList(toks, keep) ==
  IF toks = <<>> THEN <<>>
  ELSE (IF Reachable(TokenUser(Head(toks)))
        THEN <<Reencoded(Head(toks), keep)>> ELSE <<>>)
       \o ReencodedList(Tail(toks), keep)

(* C12: when the relayed SJOIN is sent in several lines no token is cut     *)
(* between two lines (every line holds whole tokens and fits in uid_buf     *)
(* with its NUL), and the tokens of all the relayed lines, in the order     *)
(* sent, are the tokens of the incoming list that name a known user behind  *)
(* the link of the message, in the order of the list, each once.            *)
C12_SplitKeepsEveryToken ==
  last.ret = "relayed"
    => /\ ToksOfLines(out_server) = ReencodedList(ListTokens, last.keep_new_modes)
       /\ \A i \in DOMAIN out_server :
            SjoinLineLen(out_server[i]) < IRCD_BUFSIZE

C12_Witness ==
  /\ last.ret = "relayed"
  /\ Len(out_server) >= 2
  /\ out_server[1].toks # <<>>
  /\ out_server[Len(out_server)].toks # <<>>
  /\ Len(ToksOfLines(out_server)) < Len(ListTokens)

\* The kinds of MODE line: the difference of the modes, a batch of
\* privileges given, a batch of privileges taken, a batch of masks removed.
IsGrant(l) == HasPrivilegeLetter(l) /\ l.modebuf[1] = "+"
IsStrip(l) == HasPrivilegeLetter(l) /\ l.modebuf[1] = "-"
IsDelta(l) == l.cmd = "MODE" /\ ~HasPrivilegeLetter(l) /\ ~IsRemoval(l)

(* C13: every MODE line sent to the local members (the difference of the    *)
(* modes, privileges given, privileges taken, masks removed) carries at     *)
(* most MAXMODEPARAMS parameters.                                           *)
C13_ModeLinesWithinParams ==
  \A i \in DOMAIN out_local :
    out_local[i].cmd = "MODE" => Len(out_local[i].para) <= MAXMODEPARAMS

C13_Witness ==
  /\ \E i \in DOMAIN out_local :
       /\ IsGrant(out_local[i])
       /\ Len(out_local[i].para) = MAXMODEPARAMS
       /\ \E j \in (i + 1)..Len(out_local) : IsGrant(out_local[j])
  /\ \E i \in DOMAIN out_local : IsStrip(out_local[i])
  /\ \E i \in DOMAIN out_local : IsRemoval(out_local[i])
  /\ \E i \in DOMAIN out_local :
       IsDelta(out_local[i]) /\ Len(out_local[i].para) = 2

\* The call made the channel: the Channel Store did not hold it before.
Created == last.ret # "none" /\ ChanKey \notin DOMAIN last.pre

(* C14: after ms_sjoin has returned, by whichever return, the Channel Store *)
(* holds no channel that this call made and that has no member: such a      *)
(* channel is freed before the return, and nothing is relayed for it.       *)
C14_NoEmptyCreatedChannel ==
  Created
    => /\ ~(Kept /\ Len(Post.members) = 0)
       /\ ~Kept => out_server = <<>>

\* A token the handler skips: it names nobody, or a user behind another
\* link.
Skipped(tok) == ~Reachable(TokenUser(tok))

\* The member list without the tokens the handler skips.
RECURSIVE JoinKept(_)
JoinKept(toks) ==
  IF toks = <<>> THEN <<>>
  ELSE IF Skipped(Head(toks)) THEN JoinKept(Tail(toks))
  ELSE IF JoinKept(Tail(toks)) = <<>> THEN Head(toks)
  ELSE Head(toks) \o <<" ">> \o JoinKept(Tail(toks))

WithoutSkipped ==
  [last.m EXCEPT
     !.parv[ParseModes(last.m, 1, NoMode, 0).args + 5] = JoinKept(ListTokens)]

\* The same call, on the same Channel Store, for the list without them.
AsIfAbsent == ms_sjoin(last.pre, last.ignore, hide_servers, WithoutSkipped)

\* The members of the channel of the message before and after the call.
MembersBefore == IF ChanKey \in DOMAIN last.pre THEN Pre.members ELSE <<>>
MembersAfter == IF Kept THEN Post.members ELSE <<>>

\* Neither the local members nor the servers are told of user u or of the
\* text s of a token.
NoTraceOf(u, s) ==
  /\ \A i \in DOMAIN out_local :
       /\ out_local[i].origin # u
       /\ HasPrivilegeLetter(out_local[i])
            => \A j \in DOMAIN out_local[i].para : out_local[i].para[j] # u
  /\ \A i \in DOMAIN out_server :
       \A j \in DOMAIN out_server[i].toks : out_server[i].toks[j].id # s

Aborted == last.ret \in {"bad_name", "few_args", "long_sjoin"}

(* C16: when ms_sjoin gives a message up as malformed (invalid channel      *)
(* name, too few arguments for a k or an l, SJOIN line too long), the       *)
(* Channel Store is as it was before the call (the same channels, each with *)
(* the same timestamp, mode, mask lists, topic and members) and nothing is  *)
(* relayed to the servers.                                                  *)
C16_AbortLeavesStoreUntouched ==
  Aborted => channels = last.pre /\ out_server = <<>>

(* C17: every such abort, of each of the three kinds, sends a notice to the *)
(* operators, and sends nothing back to the servers.                        *)
C17_AbortNotifiesOperators ==
  Aborted => out_realops # <<>> /\ out_server = <<>>

\* The timestamp of the message is below the floor, 0 included.
BogusIncoming == Arbitrated /\ IncomingTS < BOGUS_TS_FLOOR

\* Every known user behind the link that the list names is a member.
ListJoined ==
  \A i \in DOMAIN ListTokens :
    Reachable(TokenUser(ListTokens[i]))
      => Kept /\ IsMember(Post.members, TokenUser(ListTokens[i]))

(* C18 as stated: an SJOIN whose timestamp is below 800000000, 0 included, *)
(* is never rejected.  With general::ignore_bogus_ts on, the arbitration    *)
(* uses the floor 800000000, or 0 when the channel's own timestamp is 0;    *)
(* with it off, the arbitration uses the timestamp of the message and a     *)
(* notice goes to the operators.  Either way the member list is read and    *)
(* its users join.                                                          *)
C18_BogusTSAlwaysNoticed ==
  BogusIncoming
    => /\ ~Aborted
       /\ last.ignore
            => last.newts = (IF last.oldts = 0 THEN 0 ELSE BOGUS_TS_FLOOR)
       /\ ~last.ignore
            => last.newts = IncomingTS /\ out_realops # <<>>
       /\ ListJoined

\* The one case in which the handler tells the operators of a timestamp
\* when general::ignore_bogus_ts is off (line 168).
ChangesTSToZero == IncomingTS = 0 /\ ~last.isnew /\ last.oldts # 0

(* C18: an SJOIN whose timestamp is below 800000000, 0 included, is never   *)
(* rejected.  With general::ignore_bogus_ts on, the arbitration uses the    *)
(* floor 800000000, or 0 when the channel's own timestamp is 0; with it     *)
(* off, the arbitration uses the timestamp of the message, and a notice     *)
(* goes to the operators exactly when that timestamp is 0 and the channel   *)
(* exists with a timestamp that is not 0.  Either way the member list is    *)
(* read and its users join.                                                 *)
C18_BogusTSProceeds ==
  BogusIncoming
    => /\ ~Aborted
       /\ last.ignore
            => last.newts = (IF last.oldts = 0 THEN 0 ELSE BOGUS_TS_FLOOR)
       /\ ~last.ignore
            => /\ last.newts = IncomingTS
               /\ out_realops # <<>> <=> ChangesTSToZero
       /\ ListJoined

C18_Witness ==
  /\ BogusIncoming
  /\ ~last.ignore
  /\ IncomingTS # 0
  /\ ~last.isnew
  /\ out_realops = <<>>
  /\ last.joined # <<>>

\* The users the member list names.
Named == { TokenUser(ListTokens[i]) : i \in DOMAIN ListTokens } \ {NULL}

\* The member list was read and the incoming side did not lose.
IncomingKept == Arbitrated /\ last.ret # "long_sjoin" /\ last.keep_new_modes

(* C19: when the incoming side does not lose the arbitration (the channel   *)
(* is new, a timestamp is 0, the timestamps are equal, or the incoming one  *)
(* is older), every known user behind the link that the list names and who  *)
(* was no member is a member afterwards, with exactly the privileges the    *)
(* sigils of the user's token name (the first token, when the list names    *)
(* the user twice): @ for operator, % for half-operator, + for voice, and   *)
(* none without a sigil.                                                    *)
C19_JoinsWithSigilPrivileges ==
  IncomingKept
    => \A u \in Named :
         (Reachable(u) /\ ~IsMember(MembersBefore, u))
           => /\ IsMember(MembersAfter, u)
              /\ FlagsAt(MembersAfter, u) = FirstSigilsFor(u)

C19_Witness ==
  /\ IncomingKept
  /\ "bob" \in Range(last.joined)
  /\ "alice" \in Range(last.joined)
  /\ FlagsAt(Post.members, "bob") = {}
  /\ FlagsAt(Post.members, "alice") = {"CHFL_CHANOP"}
  /\ SigilsFor("alice") = {"CHFL_CHANOP", "CHFL_VOICE"}

\* The lines that tell the local members of a join.
IsJoin(l) == l.cmd \in {"JOIN", "JOIN_EXTENDED"}

\* How many memberships of user u the list members holds.
Memberships(members, u) ==
  Cardinality({ i \in DOMAIN members : members[i].client_p = u })

(* C20: whatever SJOINs have been handled, no user is twice among the       *)
(* members of a channel, also when a list names a user twice or names a     *)
(* user who is a member already; and a JOIN line is sent to the local       *)
(* members only for a user the call has added: one who was no member        *)
(* before and is one afterwards, once for each kind of JOIN line.           *)
C20_MembersUniqueJoinOnlyWhenAdded ==
  /\ \A n \in DOMAIN channels :
       \A u \in Users : Memberships(channels[n].members, u) <= 1
  /\ last.ret # "none"
       => \A i \in DOMAIN out_local :
            IsJoin(out_local[i])
              => /\ ~IsMember(MembersBefore, out_local[i].origin)
                 /\ IsMember(MembersAfter, out_local[i].origin)
                 /\ \A j \in DOMAIN out_local :
                      (/\ out_local[j].cmd = out_local[i].cmd
                       /\ out_local[j].origin = out_local[i].origin) => j = i

C20_Witness ==
  /\ last.ret = "relayed"
  /\ IsMember(MembersBefore, "bob")
  /\ "bob" \in Named
  /\ Cardinality({ i \in DOMAIN ListTokens :
                     TokenUser(ListTokens[i]) = "alice" }) = 2
  /\ last.joined = <<"alice">>
  /\ \E i \in DOMAIN out_local :
       IsJoin(out_local[i]) /\ out_local[i].origin = "alice"

(* C21: when the relayed SJOIN is sent in several lines every line has the  *)
(* header of the first: the same origin id, timestamp, channel name, mode   *)
(* letters and mode parameters; the privilege letters gathered for the MODE *)
(* lines to the local members never reach the header of a later line.       *)
C21_EveryLineHasFirstHeader ==
  \A i \in DOMAIN out_server : out_server[i].hdr = out_server[1].hdr

\* The letters of a mode field that take a parameter.
TakesParam(letter) == letter \in {"k", "l"}
ParamLetters(modebuf) == SelectSeq(modebuf, TakesParam)

\* The parameters the channel's mode gives for letters: the limit for an l,
\* the key for a k.
ParamsFor(letters, mode) ==
  [j \in 1..Len(letters) |->
     IF letters[j] = "l" THEN UIntToStr(mode.limit) ELSE mode.key]

(* C22: in every line of the relayed SJOIN the mode parameters are exactly  *)
(* those the mode letters of the line ask for, one for each k and one for   *)
(* each l, in the order of the letters; when the mode field is "0" (the     *)
(* message had "0", or the incoming side lost) no parameter stands between  *)
(* it and the member list, also when the difference told to the local       *)
(* members added or removed a key or a limit.                               *)
C22_RelayedParamsMatchLetters ==
  \A i \in DOMAIN out_server :
    out_server[i].hdr.parabuf
      = ParamsFor(ParamLetters(out_server[i].hdr.modebuf), Post.mode)

---------------------------------------------------------------------------
(* The privileges told to the local members.                                *)

\* The member loop ran (the handler did not give the message up before it).
LoopRan == Arbitrated /\ last.ret # "long_sjoin"

\* The units one token queues: one per privilege the arbitration leaves
\* it, in the order o, h, v, each with the display name of the user.
UnitsOf(tok, keep) ==
  LET fl == TokenFlags(keep, TokenSigils(tok))
      u  == TokenUser(tok)
  IN  (IF "CHFL_CHANOP" \in fl THEN <<[letter |-> "o", name |-> u]>> ELSE <<>>)
      \o (IF "CHFL_HALFOP" \in fl THEN <<[letter |-> "h", name |-> u]>> ELSE <<>>)
      \o (IF "CHFL_VOICE" \in fl THEN <<[letter |-> "v", name |-> u]>> ELSE <<>>)

\* The units queued by the tokens the handler processes, in order.
RECURSIVE UnitsQueued(_, _)
UnitsQueued(toks, keep) ==
  IF toks = <<>> THEN <<>>
  ELSE (IF Skipped(Head(toks)) THEN <<>> ELSE UnitsOf(Head(toks), keep))
       \o UnitsQueued(Tail(toks), keep)

\* The MODE lines that give privileges, in the order sent.
GrantLines == SelectSeq(out_local, IsGrant)

\* The units a line carries: its i-th letter with its i-th parameter.  A
\* letter without a parameter, or a parameter without a letter, shows as a
\* unit with the missing half NULL.
UnitsIn(l) ==
  [i \in 1..Max(Len(l.modebuf) - 1, Len(l.para)) |->
     [letter |-> IF i + 1 <= Len(l.modebuf) THEN l.modebuf[i + 1] ELSE NULL,
      name   |-> IF i <= Len(l.para) THEN l.para[i] ELSE NULL]]

RECURSIVE UnitsEmitted(_)
UnitsEmitted(lines) ==
  IF lines = <<>> THEN <<>> ELSE UnitsIn(Head(lines)) \o UnitsEmitted(Tail(lines))

(* C23: the privilege units queued by the processed tokens (one per         *)
(* privilege of a token, with the user's display name) are, in order and    *)
(* each exactly once, the units of the MODE lines that give privileges to   *)
(* the local members; every such line but the last carries exactly          *)
(* MAXMODEPARAMS units (it is sent as soon as that many have accumulated)   *)
(* and the last carries the one to MAXMODEPARAMS units left over.           *)
C23_EveryUnitInExactlyOneLine ==
  /\ LoopRan
       => /\ UnitsEmitted(GrantLines) = UnitsQueued(ListTokens, last.keep_new_modes)
          /\ \A i \in DOMAIN GrantLines :
               /\ Len(GrantLines[i].para) >= 1
               /\ Len(GrantLines[i].para) <= MAXMODEPARAMS
               /\ i < Len(GrantLines) => Len(GrantLines[i].para) = MAXMODEPARAMS
  /\ ~LoopRan => GrantLines = <<>>

C23_Witness ==
  /\ LoopRan
  /\ Len(GrantLines) >= 2
  /\ Len(GrantLines[Len(GrantLines)].para) < MAXMODEPARAMS
  /\ \E i \in DOMAIN ListTokens : Skipped(ListTokens[i])
  /\ \E i \in DOMAIN ListTokens :
       Len(UnitsOf(ListTokens[i], last.keep_new_modes)) = 3

\* The privilege a letter of a MODE line stands for.
FlagOf(letter) ==
  CASE letter = "o" -> "CHFL_CHANOP"
    [] letter = "h" -> "CHFL_HALFOP"
    [] letter = "v" -> "CHFL_VOICE"
    [] OTHER -> NULL

\* The mask list a letter of a MODE line stands for, as it was before the
\* call.
ListOf(letter) ==
  CASE letter = "b" -> Pre.banlist
    [] letter = "e" -> Pre.exceptlist
    [] letter = "I" -> Pre.invexlist
    [] OTHER -> <<>>

\* Parameter p belongs to letter: a privilege given to a user the list names
\* with it, a privilege taken from a member who held it, a mask removed from
\* the list it was on.
BelongsTo(l, letter, p) ==
  CASE IsGrant(l)   -> /\ letter \in {"o", "h", "v"}
                       /\ Reachable(p)
                       /\ FlagOf(letter) \in SigilsFor(p)
    [] IsStrip(l)   -> /\ letter \in {"o", "h", "v"}
                       /\ IsMember(MembersBefore, p)
                       /\ FlagOf(letter) \in FlagsAt(MembersBefore, p)
    [] IsRemoval(l) -> \E i \in DOMAIN ListOf(letter) : ListOf(letter)[i] = p
    [] OTHER -> TRUE

\* A line that hands a batch of parameters to the local members.
IsBatch(l) == IsGrant(l) \/ IsStrip(l) \/ IsRemoval(l)

(* C24: every MODE line that gives privileges, takes privileges or removes  *)
(* masks carries at least one mode letter after its sign and exactly as     *)
(* many parameters as letters, the i-th parameter belonging to the i-th     *)
(* letter; no MODE line is sent with a sign and no letter (an empty batch), *)
(* and at most one MODE line of a call is none of the three kinds (the      *)
(* difference of the modes).                                                *)
C24_BatchLettersMatchParams ==
  /\ \A i \in DOMAIN out_local :
       LET l == out_local[i] IN
         /\ l.cmd = "MODE" => Len(l.modebuf) >= 2
         /\ IsBatch(l)
              => /\ Len(l.para) = Len(l.modebuf) - 1
                 /\ \A k \in DOMAIN l.para : BelongsTo(l, l.modebuf[k + 1], l.para[k])
  /\ Len(SelectSeq(out_local, IsDelta)) <= 1

C24_Witness ==
  /\ \E i \in DOMAIN out_local :
       IsGrant(out_local[i]) /\ Len(out_local[i].para) = MAXMODEPARAMS
  /\ \E i \in DOMAIN out_local :
       IsStrip(out_local[i]) /\ Len(out_local[i].para) = 1
  /\ \E i \in DOMAIN out_local : IsRemovalB(out_local[i])
  /\ \E i \in DOMAIN out_local : IsRemovalI(out_local[i])
  /\ Pre.members # <<>>
  /\ \E i \in DOMAIN Pre.members : Pre.members[i].flags = {}

---------------------------------------------------------------------------
(* SpecExchange: two servers hold the same channel and send each other an   *)
(* SJOIN for it; each runs ms_sjoin on what the other sent.                 *)

PeerNames == {"X", "Y"}
OtherPeer(s) == IF s = "X" THEN "Y" ELSE "X"

\* The timestamps and the modes a server may hold for the channel.
PeerTS == {0, 1, BOGUS_TS_FLOOR, BOGUS_TS_FLOOR + 1}

PeerModes == [mode : {{}, {"n", "t"}}, limit : {0, MaxLimit}, key : DeltaKeys]

\* The channel as a server holds it, with one member.
PeerChannel(ts, mode) ==
  [channel_make("#a") EXCEPT !.creationtime = ts, !.mode = mode,
                             !.members = <<[client_p |-> "carol", flags |-> {}]>>]

\* The SJOIN a server sends for a channel it holds: the timestamp, the name,
\* the full mode in the letters and parameters of channel_modes, a member.
BurstOf(ch) ==
  Message(UIntToStr(ch.creationtime), ch.name, channel_modes(ch.mode).mbuf,
          channel_modes(ch.mode).pbuf \o <<<<"1", "A">>>>)

InitExchange ==
  /\ channels = <<>>
  /\ ignore_bogus_ts = FALSE
  /\ hide_servers = FALSE
  /\ out_local = <<>>
  /\ out_server = <<>>
  /\ out_realops = <<>>
  /\ last = NoCall
  /\ delta = NoDelta
  /\ WhowasIdle
  /\ \E tx \in PeerTS, ty \in PeerTS, mx \in PeerModes, my \in PeerModes,
        ix \in BOOLEAN, iy \in BOOLEAN :
       peers = [s \in PeerNames |->
                  [before |-> IF s = "X" THEN PeerChannel(tx, mx)
                              ELSE PeerChannel(ty, my),
                   channels |-> [n \in {"#a"} |->
                                   IF s = "X" THEN PeerChannel(tx, mx)
                                   ELSE PeerChannel(ty, my)],
                   ignore_bogus_ts |-> IF s = "X" THEN ix ELSE iy,
                   inbox |-> BurstOf(IF s = "X" THEN PeerChannel(ty, my)
                                     ELSE PeerChannel(tx, mx)),
                   done |-> FALSE]]

\* Server s handles the SJOIN the other server sent before the exchange.
Receive(s) ==
  /\ ~peers[s].done
  /\ peers' = [peers EXCEPT
                 ![s].channels = ms_sjoin(peers[s].channels,
                                          peers[s].ignore_bogus_ts, FALSE,
                                          peers[s].inbox).channels,
                 ![s].done = TRUE]
  /\ UNCHANGED sjoin_vars
  /\ UNCHANGED <<history, whowas_history_length, clock, ww_last>>

NextExchange == Receive("X") \/ Receive("Y")

SpecExchange == InitExchange /\ [][NextExchange]_vars

\* Both servers have handled the other's SJOIN.
Exchanged == peers # NoPeers /\ \A s \in PeerNames : peers[s].done

\* Server s replaces the timestamp it receives (general::ignore_bogus_ts is
\* on and the timestamp is below the floor).
Replaces(s) ==
  /\ peers[s].ignore_bogus_ts
  /\ peers[OtherPeer(s)].before.creationtime < BOGUS_TS_FLOOR

\* The two servers hold the same creation timestamp and the same mode.
Agree ==
  /\ peers["X"].channels["#a"].creationtime = peers["Y"].channels["#a"].creationtime
  /\ peers["X"].channels["#a"].mode = peers["Y"].channels["#a"].mode

(* C25: two servers that hold the same channel with any timestamps and any  *)
(* modes hold the same creation timestamp and the same mode (flags, limit,  *)
(* key) once each has handled an SJOIN with the other's timestamp and full  *)
(* mode of before the exchange.                                             *)
C25_ExchangeConverges == Exchanged => Agree

(* C25, amended: the same, when neither server replaces the timestamp it    *)
(* receives (general::ignore_bogus_ts is off there, or the timestamp is at  *)
(* least 800000000).                                                        *)
C25_ExchangeConvergesUnlessReplaced ==
  (Exchanged /\ \A s \in PeerNames : ~Replaces(s)) => Agree

C25_Witness ==
  /\ Exchanged
  /\ \A s \in PeerNames : ~Replaces(s)
  /\ peers["X"].ignore_bogus_ts
  /\ peers["X"].before.creationtime = 0
  /\ peers["Y"].before.creationtime = BOGUS_TS_FLOOR + 1
  /\ peers["X"].before.mode.key = KeyA
  /\ peers["Y"].before.mode.key = KeyB
  /\ peers["Y"].before.mode.limit < peers["X"].before.mode.limit
  /\ peers["X"].channels["#a"].mode # peers["X"].before.mode
  /\ peers["Y"].channels["#a"].mode # peers["Y"].before.mode

\* The notice that tells the local members of the changed timestamp.
IsTSNotice(l) == l.cmd = "NOTICE"

\* Line i of the call is sent before line j.
Precedes(P(_), Q(_)) ==
  \A i \in DOMAIN out_local, j \in DOMAIN out_local :
    (P(out_local[i]) /\ Q(out_local[j])) => i < j

IsStripOrRemoval(l) == IsStrip(l) \/ IsRemoval(l)

\* The lines of user u: the JOIN notifications, and the MODE lines that give
\* u a privilege.
JoinOf(u, l) == IsJoin(l) /\ l.origin = u
GrantTo(u, l) == IsGrant(l) /\ \E k \in DOMAIN l.para : l.para[k] = u

(* C26: the lines one SJOIN sends to the local members are in order: when   *)
(* the local side lost, every line that takes privileges or removes masks   *)
(* comes before the notice of the changed timestamp (which is sent once),   *)
(* and the notice before the line with the difference of the modes; that    *)
(* line comes before every JOIN line; and for every user the message adds,  *)
(* the JOIN lines come before every MODE line that gives the user a         *)
(* privilege.                                                               *)
C26_LocalLinesInOrder ==
  /\ LocalLost
       => /\ Precedes(IsStripOrRemoval, IsTSNotice)
          /\ Precedes(IsTSNotice, IsDelta)
          /\ Len(SelectSeq(out_local, IsTSNotice)) = 1
  /\ Precedes(IsDelta, IsJoin)
  /\ \A u \in Range(last.joined) :
       \A i \in DOMAIN out_local, j \in DOMAIN out_local :
         (JoinOf(u, out_local[i]) /\ GrantTo(u, out_local[j])) => i < j

C26_Witness ==
  /\ LocalLost
  /\ \E i \in DOMAIN out_local : IsStrip(out_local[i])
  /\ \E i \in DOMAIN out_local : IsRemoval(out_local[i])
  /\ \E i \in DOMAIN out_local : IsDelta(out_local[i])
  /\ \E i \in DOMAIN out_local : JoinOf("bob", out_local[i])
  /\ Len(SelectSeq(out_local, LAMBDA l : GrantTo("bob", l))) = 2
  /\ \E i \in DOMAIN out_local : IsStrip(out_local[i]) /\ out_local[i].para = <<"alice">>

---------------------------------------------------------------------------
(* SpecWhowas: the functions of whowas.c, called in any order.              *)

HistoryLengths == 1..MaxHistory
\* The ages asked for: up to MaxAge seconds, and one larger than the clock.
TimeLimits ==
  { IF a > MaxAge THEN CurrentTime + MaxTicks + 1 ELSE a : a \in 0..(MaxAge + 1) }

InitWhowas ==
  /\ channels = <<>>
  /\ ignore_bogus_ts = FALSE
  /\ hide_servers = FALSE
  /\ out_local = <<>>
  /\ out_server = <<>>
  /\ out_realops = <<>>
  /\ last = NoCall
  /\ delta = NoDelta
  /\ peers = NoPeers
  /\ history = EmptyHistory
  /\ whowas_history_length \in HistoryLengths
  /\ clock = CurrentTime
  /\ ww_last = NoWhowasCall

\* The call that has just returned, with the history it found.
WhowasCall(op, client_p, name, online, timelimit, ret) ==
  [op |-> op, pre |-> history, length |-> whowas_history_length,
   client_p |-> client_p, name |-> name, online |-> online,
   timelimit |-> timelimit, ret |-> ret]

\* whowas_add_history(client_p, online): a client changes its nickname
\* (online) or leaves; name is the nickname it has had.
AddHistory ==
  /\ ww_last.op = "none"
  /\ \E client_p \in Clients, name \in Nicks, online \in BOOLEAN :
       /\ history' = whowas_add_history(history, whowas_history_length, clock,
                                        client_p, name, online)
       /\ ww_last' = WhowasCall("add", client_p, name, online, 0, NULL)
  /\ UNCHANGED <<whowas_history_length, clock, peers>>
  /\ UNCHANGED sjoin_vars

\* whowas_off_history(client_p): the client structure is about to go.
OffHistory ==
  /\ ww_last.op = "none"
  /\ \E client_p \in Clients :
       /\ history' = whowas_off_history(history, client_p)
       /\ ww_last' = WhowasCall("off", client_p, "", FALSE, 0, NULL)
  /\ UNCHANGED <<whowas_history_length, clock, peers>>
  /\ UNCHANGED sjoin_vars

\* The configuration is read again with a whowas_history_length, and
\* whowas_trim() runs.
Trim ==
  /\ ww_last.op = "none"
  /\ \E length \in HistoryLengths :
       /\ whowas_history_length' = length
       /\ history' = whowas_trim(history, length)
       /\ ww_last' = [WhowasCall("trim", NULL, "", FALSE, 0, NULL)
                        EXCEPT !.length = length]
  /\ UNCHANGED <<clock, peers>>
  /\ UNCHANGED sjoin_vars

\* whowas_get_history(name, timelimit).
GetHistory ==
  /\ ww_last.op = "none"
  /\ \E name \in Nicks, timelimit \in TimeLimits :
       ww_last' = WhowasCall("get", NULL, name, FALSE, timelimit,
                             whowas_get_history(history,
                                                history.WHOWASHASH[strhash(name)],
                                                clock, name, timelimit))
  /\ UNCHANGED <<history, whowas_history_length, clock, peers>>
  /\ UNCHANGED sjoin_vars

\* The caller goes on.
WhowasReturn ==
  /\ ww_last.op # "none"
  /\ ww_last' = NoWhowasCall
  /\ UNCHANGED <<history, whowas_history_length, clock, peers>>
  /\ UNCHANGED sjoin_vars

\* A second passes.
Tick ==
  /\ ww_last.op = "none"
  /\ clock < CurrentTime + MaxTicks
  /\ clock' = clock + 1
  /\ UNCHANGED <<history, whowas_history_length, ww_last, peers>>
  /\ UNCHANGED sjoin_vars

NextWhowas == AddHistory \/ OffHistory \/ Trim \/ GetHistory \/ WhowasReturn \/ Tick

SpecWhowas == InitWhowas /\ [][NextWhowas]_vars

\* The structure of the history: every used slot is once in whowas_list and
\* once in the bucket of its name, and nothing else is linked.
WellLinked(h) ==
  /\ \A w \in WhowasSlots :
       /\ Count(h.whowas_list, w) = (IF w \in h.used THEN 1 ELSE 0)
       /\ \A b \in Buckets :
            Count(h.WHOWASHASH[b], w)
              = (IF w \in h.used /\ h.pool[w].hashv = b THEN 1 ELSE 0)

\* A list without its last node.
Front(list) == SubSeq(list, 1, Len(list) - 1)

\* The calls of the history that have just returned.
Added == ww_last.op = "add"
Reused == Added /\ Len(ww_last.pre.whowas_list) >= ww_last.length

\* The slot the call has filled: the head of whowas_list.
Filled == Head(history.whowas_list)

\* The links of slot w in the history h: its place in whowas_list, the
\* buckets and the clients' lists it is in.
LinksOf(h, w) ==
  [listed |-> Count(h.whowas_list, w),
   buckets |-> { b \in Buckets : Count(h.WHOWASHASH[b], w) > 0 },
   clients |-> { c \in Clients : Count(h.client_whowas[c], w) > 0 }]

\* The slots other than w are filled and linked in h as they are in g, in
\* the same order.
OthersAsIn(h, g, w) ==
  /\ \A v \in WhowasSlots \ {w} : h.pool[v] = g.pool[v]
  /\ dlinkDelete(w, h.whowas_list) = dlinkDelete(w, g.whowas_list)
  /\ \A b \in Buckets : dlinkDelete(w, h.WHOWASHASH[b]) = dlinkDelete(w, g.WHOWASHASH[b])
  /\ \A c \in Clients :
       dlinkDelete(w, h.client_whowas[c]) = dlinkDelete(w, g.client_whowas[c])

(* C27: whatever calls have been made, whowas_list holds no more than       *)
(* whowas_history_length entries, newest first; and an add that finds that  *)
(* many stored re-uses the entry at the tail, the one added earliest: the   *)
(* entry is the new head of whowas_list, filled with the name, the time and *)
(* the client of the call, linked once in whowas_list, in the bucket of its *)
(* new name only and in the list of its new client only (in no client's     *)
(* list when the client has left), and the other entries are as they were.  *)
C27_ListWithinLengthReusesOldest ==
  /\ Len(history.whowas_list) <= whowas_history_length
  /\ \A i \in 1..(Len(history.whowas_list) - 1) :
       history.pool[history.whowas_list[i]].logoff
         >= history.pool[history.whowas_list[i + 1]].logoff
  /\ Reused
       => /\ Filled = Tail_data(ww_last.pre)
          /\ history.whowas_list = <<Filled>> \o Front(ww_last.pre.whowas_list)
          /\ history.used = ww_last.pre.used
          /\ history.pool[Filled]
               = [hashv |-> strhash(ww_last.name), name |-> ww_last.name,
                  logoff |-> clock,
                  online |-> IF ww_last.online THEN ww_last.client_p ELSE NULL]
          /\ LinksOf(history, Filled)
               = [listed |-> 1, buckets |-> {strhash(ww_last.name)},
                  clients |-> IF ww_last.online THEN {ww_last.client_p} ELSE {}]
          /\ Count(history.WHOWASHASH[strhash(ww_last.name)], Filled) = 1
          /\ \A c \in Clients : Count(history.client_whowas[c], Filled) <= 1
          /\ OthersAsIn(history, ww_last.pre, Filled)

C27_Witness ==
  /\ Reused
  /\ ww_last.length = MaxHistory
  /\ ww_last.pre.pool[Filled].online = "c1"
  /\ ww_last.pre.pool[Filled].hashv = 1
  /\ strhash(ww_last.name) = 0
  /\ ww_last.online /\ ww_last.client_p = "c2"
  /\ Len(ww_last.pre.client_whowas["c1"]) = 2

\* whowas_trim has just returned.
Trimmed == ww_last.op = "trim"

\* list is what is left of old when entries are taken from its tail.
KeepsNewest(list, old) ==
  Len(list) <= Len(old) /\ list = SubSeq(old, 1, Len(list))

(* C28: whowas_trim removes entries only if necessary and oldest first:     *)
(* when it returns, whowas_list holds no more than whowas_history_length    *)
(* entries, those left are the newest of before in their order, no more     *)
(* entries are gone than the length asks for, and a history that held no    *)
(* more than whowas_history_length entries is as it was.                    *)
C28_TrimOnlyIfNecessary ==
  Trimmed
    => /\ Len(history.whowas_list) <= ww_last.length
       /\ KeepsNewest(history.whowas_list, ww_last.pre.whowas_list)
       /\ Len(history.whowas_list)
            = Min(Len(ww_last.pre.whowas_list), ww_last.length)
       /\ Len(ww_last.pre.whowas_list) <= ww_last.length
            => history = ww_last.pre

\* whowas_off_history has just returned for client ww_last.client_p.
WentOff == ww_last.op = "off"

\* Slot w as whowas_off_history(client_p) leaves it.
WithoutClient(slot, client_p) ==
  IF slot.online = client_p THEN [slot EXCEPT !.online = NULL] ELSE slot

(* C29: in every state an entry is linked in a client's whowas list, once,  *)
(* exactly when its online field is that client; and when                   *)
(* whowas_off_history(client) has returned, no entry refers to the client,  *)
(* the client's list is empty, and whowas_list, the buckets, the other      *)
(* clients' lists and the rest of every entry are as they were.             *)
C29_OnlineExactlyWhenLinked ==
  /\ \A c \in Clients, w \in WhowasSlots :
       Count(history.client_whowas[c], w)
         = (IF w \in history.used /\ history.pool[w].online = c THEN 1 ELSE 0)
  /\ WentOff
       => /\ history.client_whowas[ww_last.client_p] = <<>>
          /\ \A w \in WhowasSlots : history.pool[w].online # ww_last.client_p
          /\ history.whowas_list = ww_last.pre.whowas_list
          /\ history.WHOWASHASH = ww_last.pre.WHOWASHASH
          /\ history.used = ww_last.pre.used
          /\ \A w \in WhowasSlots :
               history.pool[w] = WithoutClient(ww_last.pre.pool[w], ww_last.client_p)
          /\ \A c \in Clients \ {ww_last.client_p} :
               history.client_whowas[c] = ww_last.pre.client_whowas[c]

C29_Witness ==
  /\ WentOff
  /\ ww_last.client_p = "c1"
  /\ Len(ww_last.pre.whowas_list) = 2
  /\ \E w \in WhowasSlots : ww_last.pre.pool[w].online = "c1"
  /\ \E w \in WhowasSlots : ww_last.pre.pool[w].online = "c2"
  /\ Len(history.client_whowas["c2"]) = 1
  /\ Len(history.whowas_list) = 2

\* whowas_get_history(ww_last.name, ww_last.timelimit) has just returned.
LookedUp == ww_last.op = "get"

\* The entries of nickname name whose log-off time is within timelimit of
\* the clock, newest first.
WithinLimit(w, name, timelimit) ==
  /\ w \in history.used
  /\ irccmp(name, history.pool[w].name) = 0
  /\ history.pool[w].logoff + timelimit >= clock

Matching(name, timelimit) ==
  SelectSeq(history.whowas_list, LAMBDA w : WithinLimit(w, name, timelimit))

\* The clients that are online and have used the nickname within the limit.
OnlineUsers(name, timelimit) ==
  { history.pool[w].online :
      w \in { v \in WhowasSlots : WithinLimit(v, name, timelimit) } } \ {NULL}

C31_GrantedPrivilegeIsHeld ==
  \A i \in DOMAIN out_local :
    IsGrant(out_local[i])
      => \A k \in DOMAIN out_local[i].para :
           /\ IsMember(MembersAfter, out_local[i].para[k])
           /\ FlagOf(out_local[i].modebuf[k + 1])
                \in FlagsAt(MembersAfter, out_local[i].para[k])

\* One step of the server leaves no channel that stays in the Channel Store
\* with a larger creation timestamp, and none that had 0 with another.
TSStep ==
  \A n \in (DOMAIN channels) \cap (DOMAIN channels') :
    /\ channels'[n].creationtime <= channels[n].creationtime
    /\ channels[n].creationtime = 0 => channels'[n].creationtime = 0

(* C32: over any sequence of SJOIN messages, under either setting of        *)
(* general::ignore_bogus_ts, the creation timestamp of a channel that stays *)
(* in the Channel Store never increases, and once it is 0 it stays 0.       *)
C32_TimestampNeverIncreases == [][TSStep]_vars

C32_Witness ==
  /\ Existed
  /\ last.ignore
  /\ Pre.creationtime = 0
  /\ IncomingTS = BOGUS_TS_FLOOR + 1
  /\ Post.creationtime = 0
  /\ last.ret = "relayed"

\* The Channel Store after the message of the call that has just returned is
\* processed once more, with the same configuration.
Again == ms_sjoin(channels, last.ignore, hide_servers, last.m).channels

\* What a channel holds apart from its name and topic: timestamp, mode, mask
\* lists and the privilege flags of every member.
Holdings(ch) ==
  [creationtime |-> ch.creationtime, mode |-> ch.mode,
   banlist |-> ch.banlist, exceptlist |-> ch.exceptlist,
   invexlist |-> ch.invexlist,
   flags |-> { <<ch.members[i].client_p, ch.members[i].flags>> :
                 i \in 1..Len(ch.members) }]

(* C33: processing the same SJOIN message twice in succession leaves the    *)
(* channel's timestamp, mode, mask lists and every member's privilege flags *)
(* after the second processing as they were after the first.                *)
C33_SecondProcessingChangesNothing ==
  last.ret # "none"
    => /\ DOMAIN Again = DOMAIN channels
       /\ \A n \in DOMAIN channels : Holdings(Again[n]) = Holdings(channels[n])

C33_Witness ==
  /\ last.ret = "relayed"
  /\ Existed
  /\ ~last.keep_our_modes
  /\ Pre.banlist # <<>>
  /\ \E i \in 1..Len(Pre.members) : Pre.members[i].flags # {}
  /\ Len(Post.members) > Len(Pre.members)
  /\ Holdings(Again[ChanKey]) = Holdings(Post)
  /\ Holdings(Post) # Holdings(Pre)

(* C34: ms_sjoin relays an SJOIN line to the other servers only if at least *)
(* one member token was resolved and written into it (an empty or blank     *)
(* list, or one whose tokens are all unresolvable or unreachable, relays    *)
(* nothing, for a new and for an existing channel), and every relayed line  *)
(* keeps the ':' that introduces its member list.                           *)
C34_RelayedLineHasMembers ==
  \A i \in DOMAIN out_server :
    /\ out_server[i].toks # <<>>
    /\ out_server[i].colon

---------------------------------------------------------------------------
(* SpecHide: the server of SpecChan under either setting of server hiding   *)
(* (serverhide::hide_servers, or the source server flagged as hidden).      *)

InitHide ==
  /\ channels = <<>>
  /\ ignore_bogus_ts \in BOOLEAN
  /\ hide_servers \in BOOLEAN
  /\ out_local = <<>>
  /\ out_server = <<>>
  /\ out_realops = <<>>
  /\ last = NoCall
  /\ delta = NoDelta
  /\ OtherIdle

SpecHide == InitHide /\ [][NextChan]_vars

(* C35: when server hiding is on (hide_servers set or the source server     *)
(* hidden), no line delivered to the local members of the channel while an  *)
(* SJOIN is handled names the source server as its origin: the mode-delta   *)
(* line, the privilege lines, the mask-list removal lines and the TOPIC     *)
(* line all carry the local server's name.                                  *)
C35_HiddenSourceNeverNamed ==
  hide_servers
    => \A i \in DOMAIN out_local : out_local[i].origin # source_p.name

\* With hiding on, every line but those of remove_ban_list carries another
\* origin than the source server.
C35_OnlyMaskLinesNameSource ==
  hide_servers
    => \A i \in DOMAIN out_local :
         out_local[i].origin = source_p.name => IsRemoval(out_local[i])

\* With hiding on, a call sends a mode-delta line, a privilege grant, a
\* privilege removal and a TOPIC line, each in the local server's name.
C35_HiddenLinesSent ==
  /\ hide_servers
  /\ \E i \in DOMAIN out_local :
       IsDelta(out_local[i]) /\ out_local[i].origin = me.name
  /\ \E i \in DOMAIN out_local :
       IsGrant(out_local[i]) /\ out_local[i].origin = me.name
  /\ \E i \in DOMAIN out_local :
       IsStrip(out_local[i]) /\ out_local[i].origin = me.name
  /\ \E i \in DOMAIN out_local :
       out_local[i].cmd = "TOPIC" /\ out_local[i].origin = me.name

---------------------------------------------------------------------------
\* The indices of parv the call that has just returned has read, in order:
\* the channel name (line 99), the timestamp (line 108), the mode letters
\* (line 114), the parameters of the k and l letters (lines 119 and 127) and,
\* unless the handler returned before line 278, the member list.
ParvReads ==
  IF last.ret = "bad_name" THEN <<2>>
  ELSE <<2, 1, 3>> \o ParseModes(last.m, 1, NoMode, 0).reads
         \o (IF last.ret \in {"few_args", "long_sjoin"} THEN <<>>
             ELSE <<4 + ParseModes(last.m, 1, NoMode, 0).args>>)

(* C36: for every SJOIN with at least 5 arguments, whatever its mode        *)
(* letters, ms_sjoin reads no parameter at an index at or above the         *)
(* argument count: the argument of each k or l and the member list at index *)
(* 4 + (number of k and l letters) are read only at indices below parc.     *)
C36_ReadsBelowParc ==
  (last.ret # "none" /\ last.m.parc >= 5)
    => \A k \in DOMAIN ParvReads : ParvReads[k] < last.m.parc

\* A k with no parameter of its own: the member list, the last parameter, is
\* read as the key before the handler returns.
C36_Witness ==
  /\ last.ret = "few_args"
  /\ last.m.parc = 5
  /\ ParvReads = <<2, 1, 3, 4>>
  /\ \E i \in DOMAIN Parv(last.m, 3) : Parv(last.m, 3)[i] = "k"

=============================================================================
